---- MODULE Spec2Model ----
(***************************************************************************)
(* Verification model of voltage_modbus: the chunked batch reads of the    *)
(* ModbusClient trait (client.rs), the CommandBatcher (batcher.rs) and the *)
(* fixed-capacity ModbusPdu (pdu.rs).                                      *)
(*                                                                         *)
(* Several specifications share the module:                                *)
(*   Spec             one chunked read over a GenericModbusClient          *)
(*   SpecBatcher      a CommandBatcher driven by a single caller           *)
(*   SpecPdu          a ModbusPdu driven by its public operations          *)
(*   SpecConsecutive  one call of CommandBatcher::are_strictly_consecutive *)
(*   SpecBuilders     one call of a PDU build function                     *)
(*   SpecBytes        a byte order conversion followed by its inverse      *)
(*   SpecCodec        one call of a value codec function                   *)
(* Each leaves the variables of the others at their initial values.        *)
(***************************************************************************)
EXTENDS Integers, Sequences, FiniteSets, TLC

VARIABLES
    \* ---- chunked read (client.rs, read_01_batch .. read_04_batch) ----
    pc,               \* "idle" | "await" (transport response) | "sleep" | "done"
    fc,               \* function code of the batch read in progress (1..4)
    req_address,      \* the caller's `address` argument
    req_quantity,     \* the caller's `quantity` argument
    limits,           \* the caller's DeviceLimits
    current_address,  \* local `current_address`
    remaining,        \* local `remaining`
    count,            \* local `count` of the sub-request in flight
    result,           \* local `result` accumulator
    calls,            \* history: every read_NN sub-request made, in order
    requests,         \* history: every request handed to the transport, in order
    responses,        \* history: the outcome of every finished sub-request, in order
    sleeps,           \* history: for every suspension, the number of sub-requests made before it
    outcome,          \* what the batch read returned
    \* ---- CommandBatcher (batcher.rs) ----
    pending_commands, \* HashMap<(u8, u8), Vec<BatchCommand>>: a function on the present keys
    last_batch_time,  \* Instant of the last take_commands (or of construction)
    total_pending,    \* usize counter
    batch_window,     \* Duration, in milliseconds
    max_batch_size,   \* usize
    now,              \* the monotonic clock read by Instant::now()
    ticks,            \* number of clock advances so far (bounds the model)
    next_uid,         \* history: number of add_command calls so far
    since,            \* history: commands added since the last take_commands/clear, in order
    taken,            \* the map returned by the last take_commands
    taken_of,         \* history: `since` as it was when the last take_commands was called
    take_count,       \* history: per command uid, the number of take_commands calls that returned it
    cleared,          \* history: uids of commands pending when a clear was called
    last_take_time,   \* history: clock value at construction or at the last take_commands
    last_op,          \* the last CommandBatcher operation called
    last_should,      \* the value returned by the last should_execute
    \* ---- ModbusPdu (pdu.rs) ----
    data,             \* [u8; MAX_PDU_SIZE], indexed 0 .. MAX_PDU_SIZE-1
    len,              \* usize
    appended,         \* history: bytes successfully appended since new/from_slice/clear
    overwritten,      \* history: indices stored to through as_mut_slice since new/from_slice/clear
    pdu_ops,          \* number of PDU operations so far (bounds the model)
    pdu_last,         \* the last PDU operation: its name, its result, the state before it
    \* ---- calls of the pure functions (batcher.rs, pdu.rs, codec.rs, bytes.rs) ----
    fn_args,          \* the function called and its arguments
    fn_ret            \* what the call returned; kind "none" before the call

chunkVars == <<pc, fc, req_address, req_quantity, limits, current_address, remaining,
               count, result, calls, requests, responses, sleeps, outcome>>
batcherVars == <<pending_commands, last_batch_time, total_pending, batch_window,
                 max_batch_size, now, ticks, next_uid, since, taken, taken_of,
                 take_count, cleared, last_take_time, last_op, last_should>>
pduVars == <<data, len, appended, overwritten, pdu_ops, pdu_last>>
pureVars == <<fn_args, fn_ret>>
vars == <<chunkVars, batcherVars, pduVars, pureVars>>

Min(a, b) == IF a <= b THEN a ELSE b

(***************************************************************************)
(* Bounds of the model.                                                    *)
(***************************************************************************)
\* A chunked read is started only when it needs at most this many sub-requests.
MaxChunks == 4
\* Number of add_command calls in one run of the batcher.
MaxAdds == 3
\* Number of clock advances in one run of the batcher.
MaxTicks == 2
\* Number of PDU operations in one run.
MaxPduOps == 3
\* Longest slice of commands passed to are_strictly_consecutive.
MaxCommands == 3
\* Longest slice of registers passed to decode_register_value.
MaxRegisters == 4

(***************************************************************************)
(* Program constants.                                                      *)
(***************************************************************************)
U16_MAX == 65535
MAX_PDU_SIZE == 253
DEFAULT_MAX_READ_REGISTERS == 125
DEFAULT_MAX_WRITE_REGISTERS == 123
DEFAULT_MAX_READ_COILS == 2000
DEFAULT_MAX_WRITE_COILS == 1968
DEFAULT_INTER_REQUEST_DELAY_MS == 0
DEFAULT_BATCH_WINDOW_MS == 20
DEFAULT_MAX_BATCH_SIZE == 100
\* Ceilings checked by GenericModbusClient::read_01/read_02 and read_03/read_04.
MAX_WRITE_REGISTERS == 123
MAX_WRITE_COILS == 1968
READ_BITS_CEILING == 2000
READ_REGISTERS_CEILING == 125

(***************************************************************************)
(* DeviceLimits (device_limits.rs).                                        *)
(***************************************************************************)
DeviceLimits_default ==
    [max_read_registers     |-> DEFAULT_MAX_READ_REGISTERS,
     max_write_registers    |-> DEFAULT_MAX_WRITE_REGISTERS,
     max_read_coils         |-> DEFAULT_MAX_READ_COILS,
     max_write_coils        |-> DEFAULT_MAX_WRITE_COILS,
     inter_request_delay_ms |-> DEFAULT_INTER_REQUEST_DELAY_MS]

DeviceLimits_conservative ==
    [max_read_registers     |-> 50,
     max_write_registers    |-> 50,
     max_read_coils         |-> 500,
     max_write_coils        |-> 500,
     inter_request_delay_ms |-> 10]

with_max_read_registers(l, n) == [l EXCEPT !.max_read_registers = n]
with_max_read_coils(l, n) == [l EXCEPT !.max_read_coils = n]
with_inter_request_delay_ms(l, d) == [l EXCEPT !.inter_request_delay_ms = d]

\* u16::div_ceil
div_ceil(a, b) == IF a % b > 0 THEN (a \div b) + 1 ELSE a \div b

\* Mutant of read_request_count: the quotient is rounded down.
read_request_count_floor(l, total_registers) ==
    IF total_registers = 0 THEN 0 ELSE total_registers \div l.max_read_registers

\* DeviceLimits::read_request_count (l.max_read_registers > 0: the division
\* by zero panics)
read_request_count(l, total_registers) ==
    IF total_registers = 0 THEN 0 ELSE div_ceil(total_registers, l.max_read_registers)

\* The DeviceLimits values a caller passes in the model.
LimitValues == {0, 1, 2, 3, 126, 2001}
DelayValues == {0, 10}
LimitsSet ==
    {DeviceLimits_default, DeviceLimits_conservative}
    \cup {with_inter_request_delay_ms(
              with_max_read_coils(
                  with_max_read_registers(DeviceLimits_default, n), n), d) :
          n \in LimitValues, d \in DelayValues}

\* The arguments a caller passes in the model.
FunctionCodes == {1, 2, 3, 4}
Addresses == {0, 100, 65534}
Quantities == {0, 1, 2, 3, 5, 120, 126, 600, 2001}
TransportErrors == {"Timeout", "Connection"}

(***************************************************************************)
(* Chunked read: helpers.                                                  *)
(***************************************************************************)
\* Mutant of saturating_add: the address wraps (u16::wrapping_add).
wrapping_add(a, b) == (a + b) % (U16_MAX + 1)

\* u16::saturating_add
saturating_add(a, b) == IF a + b > U16_MAX THEN U16_MAX ELSE a + b

\* The device limit a batch read uses: max_read_coils for read_01_batch and
\* read_02_batch, max_read_registers for read_03_batch and read_04_batch.
chunk_limit(f, lim) ==
    IF f \in {1, 2} THEN lim.max_read_coils ELSE lim.max_read_registers

\* let count = remaining.min(max_read_xxx);
chunk_count(rem, f, lim) == Min(rem, chunk_limit(f, lim))

\* Mutant of read_quantity_valid: a quantity of 0 is accepted.
read_quantity_valid_accepts_zero(f, q) ==
    ~(q > (IF f \in {1, 2} THEN READ_BITS_CEILING ELSE READ_REGISTERS_CEILING))

\* GenericModbusClient::read_0x: `if quantity == 0 || quantity > CEILING { Err }`
read_quantity_valid(f, q) ==
    ~(q = 0 \/ q > (IF f \in {1, 2} THEN READ_BITS_CEILING ELSE READ_REGISTERS_CEILING))

\* Mutant of extend_from_slice: the chunk is put in front of the accumulator.
prepend_slice(res, chunk) == chunk \o res

\* result.extend_from_slice(&chunk)
extend_from_slice(res, chunk) == res \o chunk

\* Result values of the batch read and of a sub-request.
Ok(v) == [kind |-> "ok", value |-> v, err |-> "none"]
Err(e) == [kind |-> "err", value |-> <<>>, err |-> e]
NoOutcome == [kind |-> "none", value |-> <<>>, err |-> "none"]

\* The device in the model: the coil or register at address a holds a value
\* derived from a, so that data read at different addresses differs.
DeviceValue(f, a) == IF f \in {1, 2} THEN (a % 2 = 1) ELSE a

\* The data of a response to a request for `c` elements at `addr` carrying
\* `n` elements (addresses past the end of the address space read as U16_MAX).
ResponseData(f, addr, n) ==
    [i \in 1..n |-> DeviceValue(f, Min(addr + i - 1, U16_MAX))]

\* The byte of a coil response holding coils 8k+1 .. 8k+8 of `coils`, the
\* first in the lowest bit.
packed_byte(coils, k) ==
    LET bit(j) == IF 8 * k + j + 1 <= Len(coils) /\ coils[8 * k + j + 1] THEN 1 ELSE 0
    IN bit(0) + 2 * bit(1) + 4 * bit(2) + 8 * bit(3)
       + 16 * bit(4) + 32 * bit(5) + 64 * bit(6) + 128 * bit(7)

\* create_coil_response: the data of a FC01/FC02 response, the byte count
\* `((coils.len() + 7) / 8) as u8` and the packed bytes.
create_coil_response(coils) ==
    LET bytes == (Len(coils) + 7) \div 8
    IN <<bytes % 256>> \o [k \in 1..bytes |-> packed_byte(coils, k - 1)]

\* create_register_response: the data of a FC03/FC04 response, the byte
\* count `(values.len() * 2) as u8` and each value big-endian.
create_register_response(values) ==
    <<(Len(values) * 2) % 256>>
    \o [i \in 1..(2 * Len(values)) |->
           IF i % 2 = 1 THEN values[(i + 1) \div 2] \div 256 ELSE values[i \div 2] % 256]

\* ModbusResponse::parse_bits: the byte count prefix is skipped and every
\* data byte gives 8 bits, the lowest first.
parse_bits(response_data) ==
    LET p == <<1, 2, 4, 8, 16, 32, 64, 128>>
    IN [i \in 1..(8 * (Len(response_data) - 1)) |->
           (response_data[2 + ((i - 1) \div 8)] \div p[1 + ((i - 1) % 8)]) % 2 = 1]

\* ModbusResponse::parse_registers: the byte count prefix is skipped and
\* every pair of data bytes gives a register, big-endian.
parse_registers(response_data) ==
    [i \in 1..((Len(response_data) - 1) \div 2) |->
        response_data[2 * i] * 256 + response_data[2 * i + 1]]

\* bits.into_iter().take(quantity as usize).collect()
take(bits, quantity) == SubSeq(bits, 1, Min(Len(bits), quantity))

\* What GenericModbusClient::read_0x returns for the response it was given:
\* read_01 and read_02 take the first `quantity` of the parsed bits, read_03
\* and read_04 return the parsed registers.
read_parsed(f, quantity, response_data) ==
    IF f \in {1, 2} THEN take(parse_bits(response_data), quantity)
    ELSE parse_registers(response_data)

\* The wire response of the device for the elements `elements`.
WireResponse(f, elements) ==
    IF f \in {1, 2} THEN create_coil_response(elements)
    ELSE create_register_response(elements)

\* A response carries the requested number of elements, or one fewer.
ResponseLens(c) == {c} \cup (IF c > 1 THEN {c - 1} ELSE {})

\* Number of sub-requests a read of q with limit l needs (l > 0).
ChunksNeeded(q, l) == (q + l - 1) \div l

(***************************************************************************)
(* Chunked read: the steps of read_0x_batch between suspension points.     *)
(***************************************************************************)
\* Top of the `while remaining > 0` loop with locals (cur, rem, res), resp
\* being the sub-request outcomes so far: either
\* the loop is over and the function returns Ok(result), or the next
\* sub-request self.read_0x(slave_id, cur, count) is made.  The sub-request
\* fails at once, without reaching the transport, when its quantity is
\* invalid; otherwise the request is handed to the transport and awaited.
\* The log of calls is capped: a read is started only when it needs at most
\* MaxChunks sub-requests, so the cap is never met by the loop as it is.
loop_head(f, lim, cur, rem, res, resp) ==
    /\ current_address' = cur
    /\ remaining' = rem
    /\ result' = res
    /\ IF rem > 0
       THEN LET c == chunk_count(rem, f, lim)
                call == [function |-> f, address |-> cur, quantity |-> c]
            IN /\ Len(calls) <= MaxChunks
               /\ count' = c
               /\ calls' = Append(calls, call)
               /\ IF read_quantity_valid(f, c)
                  THEN /\ requests' = Append(requests, call)
                       /\ responses' = resp
                       /\ pc' = "await"
                       /\ outcome' = outcome
                  ELSE /\ requests' = requests
                       /\ responses' = Append(resp, Err("InvalidData"))
                       /\ pc' = "done"
                       /\ outcome' = Err("InvalidData")
       ELSE /\ count' = count
            /\ calls' = calls
            /\ requests' = requests
            /\ responses' = resp
            /\ pc' = "done"
            /\ outcome' = Ok(res)

\* Mutant of read_batch: a zero quantity is rejected, as the single reads
\* read_0x reject it, instead of giving an empty result.
read_batch_rejects_zero(f, a, q, lim) ==
    /\ pc = "idle"
    /\ fc' = f
    /\ req_address' = a
    /\ req_quantity' = q
    /\ limits' = lim
    /\ sleeps' = sleeps
    /\ IF q = 0
       THEN /\ pc' = "done"
            /\ outcome' = Err("InvalidData")
            /\ UNCHANGED <<current_address, remaining, count, result, calls,
                           requests, responses>>
       ELSE loop_head(f, lim, a, q, <<>>, responses)

\* A call of read_01_batch, read_02_batch, read_03_batch or read_04_batch
\* (f = 1..4), up to its first suspension point or its return.
read_batch(f, a, q, lim) ==
    /\ pc = "idle"
    /\ fc' = f
    /\ req_address' = a
    /\ req_quantity' = q
    /\ limits' = lim
    /\ sleeps' = sleeps
    /\ IF q = 0
       THEN /\ pc' = "done"
            /\ outcome' = Ok(<<>>)
            /\ UNCHANGED <<current_address, remaining, count, result, calls,
                           requests, responses>>
       ELSE loop_head(f, lim, a, q, <<>>, responses)

\* Mutant of should_sleep: the suspension also follows the last sub-request.
should_sleep_after_last(inter_request_delay_ms, rem) == inter_request_delay_ms > 0

\* if inter_request_delay_ms > 0 && remaining > 0
should_sleep(inter_request_delay_ms, rem) == inter_request_delay_ms > 0 /\ rem > 0

\* The awaited sub-request returns Ok(chunk): the rest of the loop body, then
\* either the inter-request sleep or the next turn of the loop.
sub_request_ok(chunk) ==
    /\ pc = "await"
    /\ LET res == extend_from_slice(result, chunk)
           cur == saturating_add(current_address, count)
           rem == remaining - count
           resp == Append(responses, Ok(chunk))
       IN IF should_sleep(limits.inter_request_delay_ms, rem)
          THEN /\ pc' = "sleep"
               /\ result' = res
               /\ current_address' = cur
               /\ remaining' = rem
               /\ responses' = resp
               /\ sleeps' = Append(sleeps, Len(calls))
               /\ UNCHANGED <<count, calls, requests, outcome>>
          ELSE /\ sleeps' = sleeps
               /\ loop_head(fc, limits, cur, rem, res, resp)
    /\ UNCHANGED <<fc, req_address, req_quantity, limits>>

\* The transport answers the request in flight with the wire response for n
\* elements: the sub-request parses it and returns Ok(chunk).
transport_response_ok ==
    /\ pc = "await"
    /\ \E n \in ResponseLens(count) :
          \E elements \in {ResponseData(fc, current_address, n)} :
              \E response \in {WireResponse(fc, elements)} :
                  \E chunk \in {read_parsed(fc, count, response)} :
                      sub_request_ok(chunk)
    /\ UNCHANGED <<batcherVars, pduVars, pureVars>>

\* Mutant of sub_request_err: the failure is swallowed and what was read so
\* far is returned as a success.
sub_request_err_partial(e) ==
    /\ pc = "await"
    /\ pc' = "done"
    /\ outcome' = Ok(result)
    /\ responses' = Append(responses, Err(e))
    /\ UNCHANGED <<fc, req_address, req_quantity, limits, current_address, remaining,
                   count, result, calls, requests, sleeps>>

\* The awaited sub-request returns Err(e): `?` returns it from the batch read,
\* dropping the local `result`.
sub_request_err(e) ==
    /\ pc = "await"
    /\ pc' = "done"
    /\ outcome' = Err(e)
    /\ responses' = Append(responses, Err(e))
    /\ UNCHANGED <<fc, req_address, req_quantity, limits, current_address, remaining,
                   count, result, calls, requests, sleeps>>

\* The transport fails the request in flight.
transport_response_err ==
    /\ \E e \in TransportErrors : sub_request_err(e)
    /\ UNCHANGED <<batcherVars, pduVars, pureVars>>

\* tokio::time::sleep(inter_request_delay_ms) is over: next turn of the loop.
sleep_elapsed ==
    /\ pc = "sleep"
    /\ sleeps' = sleeps
    /\ loop_head(fc, limits, current_address, remaining, result, responses)
    /\ UNCHANGED <<fc, req_address, req_quantity, limits>>
    /\ UNCHANGED <<batcherVars, pduVars, pureVars>>

(***************************************************************************)
(* CommandBatcher (batcher.rs).                                            *)
(*                                                                         *)
(* A BatchCommand is a record of its fields plus `uid`, a history field    *)
(* numbering the add_command calls, by which the claims tell apart two     *)
(* commands with equal fields.                                             *)
(***************************************************************************)
EmptyMap == [k \in {} |-> <<>>]

\* Mutant of command_key: commands are grouped by slave id alone.
command_key_slave_only(c) == <<c.slave_id, 0>>

\* let key = (command.slave_id, command.function_code);
command_key(c) == <<c.slave_id, c.function_code>>

\* self.pending_commands.entry(key).or_default().push(command)
entry_push(m, key, c) ==
    IF key \in DOMAIN m
    THEN [m EXCEPT ![key] = Append(@, c)]
    ELSE [k \in DOMAIN m \cup {key} |-> IF k = key THEN <<c>> ELSE m[k]]

\* Mutant of mem_take: the map is cloned and left in place.
mem_clone(m) == [ret |-> m, left |-> m]

\* std::mem::take(&mut self.pending_commands): the map is returned and an
\* empty map is left in its place.
mem_take(m) == [ret |-> m, left |-> EmptyMap]

pending_count == total_pending

is_empty == total_pending = 0

\* Mutant of should_execute: both conditions are required.
should_execute_and ==
    /\ now - last_batch_time >= batch_window
    /\ total_pending >= max_batch_size

\* self.last_batch_time.elapsed() >= self.batch_window
\*     || self.total_pending >= self.max_batch_size
should_execute ==
    \/ now - last_batch_time >= batch_window
    \/ total_pending >= max_batch_size

\* The uids of the commands held in a grouped map.
UidsOf(m) == UNION {{m[k][i].uid : i \in DOMAIN m[k]} : k \in DOMAIN m}

\* How many times the command uid u occurs in a grouped map.
Occurrences(m, u) ==
    Cardinality({ki \in UNION {{<<k, i>> : i \in DOMAIN m[k]} : k \in DOMAIN m} :
                    m[ki[1]][ki[2]].uid = u})

\* The arguments of add_command in the model.
\* (slave_id, function_code) is (1, 6), (2, 6) or (1, 16).
BatchCommands ==
    { c \in [point_id : {1}, value : {"F32(100.0)"}, slave_id : {1, 2},
             function_code : {6, 16}, register_address : {100},
             data_type : {"uint16"}, byte_order : {"BigEndian"}] :
        ~(c.slave_id = 2 /\ c.function_code = 16) }

\* CommandBatcher::add_command
add_command(command) ==
    /\ next_uid < MaxAdds
    /\ LET c == [uid |-> next_uid + 1] @@ command
       IN /\ pending_commands' = entry_push(pending_commands, command_key(c), c)
          /\ since' = Append(since, c)
    /\ total_pending' = total_pending + 1
    /\ next_uid' = next_uid + 1
    /\ take_count' = Append(take_count, 0)
    /\ last_op' = "add_command"
    /\ UNCHANGED <<last_batch_time, batch_window, max_batch_size, now, ticks, taken,
                   taken_of, cleared, last_take_time, last_should>>

\* CommandBatcher::take_commands
take_commands ==
    /\ last_batch_time' = now
    /\ total_pending' = 0
    /\ LET t == mem_take(pending_commands)
       IN /\ taken' = t.ret
          /\ pending_commands' = t.left
          /\ take_count' = [u \in DOMAIN take_count |->
                               take_count[u] + Occurrences(t.ret, u)]
    /\ taken_of' = since
    /\ since' = <<>>
    /\ last_take_time' = now
    /\ last_op' = "take_commands"
    /\ UNCHANGED <<batch_window, max_batch_size, now, ticks, next_uid, cleared,
                   last_should>>

\* Mutant of clear: the counter is not reset.
clear_keeps_count ==
    /\ pending_commands' = EmptyMap
    /\ cleared' = cleared \cup {since[i].uid : i \in DOMAIN since}
    /\ since' = <<>>
    /\ last_op' = "clear"
    /\ UNCHANGED <<total_pending, last_batch_time, batch_window, max_batch_size, now,
                   ticks, next_uid, taken, taken_of, take_count, last_take_time,
                   last_should>>

\* Mutant of clear: the timestamp is reset, as take_commands resets it.
clear_resets_time ==
    /\ pending_commands' = EmptyMap
    /\ total_pending' = 0
    /\ last_batch_time' = now
    /\ cleared' = cleared \cup {since[i].uid : i \in DOMAIN since}
    /\ since' = <<>>
    /\ last_op' = "clear"
    /\ UNCHANGED <<batch_window, max_batch_size, now, ticks, next_uid,
                   taken, taken_of, take_count, last_take_time, last_should>>

\* CommandBatcher::clear
clear ==
    /\ pending_commands' = EmptyMap
    /\ total_pending' = 0
    /\ cleared' = cleared \cup {since[i].uid : i \in DOMAIN since}
    /\ since' = <<>>
    /\ last_op' = "clear"
    /\ UNCHANGED <<last_batch_time, batch_window, max_batch_size, now, ticks, next_uid,
                   taken, taken_of, take_count, last_take_time, last_should>>

\* A call of CommandBatcher::should_execute, whose result the caller keeps.
should_execute_call ==
    /\ last_should' = should_execute
    /\ last_op' = "should_execute"
    /\ UNCHANGED <<pending_commands, last_batch_time, total_pending, batch_window,
                   max_batch_size, now, ticks, next_uid, since, taken, taken_of,
                   take_count, cleared, last_take_time>>

\* Time passes between two calls: the monotonic clock advances by d ms.
TickSteps == {1, 20}
Tick(d) ==
    /\ ticks < MaxTicks
    /\ now' = now + d
    /\ ticks' = ticks + 1
    /\ last_op' = "tick"
    /\ UNCHANGED <<pending_commands, last_batch_time, total_pending, batch_window,
                   max_batch_size, next_uid, since, taken, taken_of, take_count,
                   cleared, last_take_time, last_should>>

(***************************************************************************)
(* ModbusPdu (pdu.rs).  The operations are functions of a PDU value        *)
(* [data, len] giving [ok, pdu]: whether the call returned Ok, and the PDU *)
(* after it.                                                               *)
(***************************************************************************)
\* ModbusPdu::new
ModbusPdu_new == [data |-> [i \in 0..(MAX_PDU_SIZE - 1) |-> 0], len |-> 0]

\* Mutant of push: the capacity check is off by one (`>` for `>=`).
push_off_by_one(p, byte) ==
    IF p.len > MAX_PDU_SIZE
    THEN [ok |-> FALSE, pdu |-> p]
    ELSE [ok |-> TRUE,
          pdu |-> [data |-> [i \in DOMAIN p.data |-> IF i = p.len THEN byte ELSE p.data[i]],
                   len |-> p.len + 1]]

\* ModbusPdu::push
push(p, byte) ==
    IF p.len >= MAX_PDU_SIZE
    THEN [ok |-> FALSE, pdu |-> p]
    ELSE [ok |-> TRUE,
          pdu |-> [data |-> [p.data EXCEPT ![p.len] = byte], len |-> p.len + 1]]

\* ModbusPdu::push_u16: self.push(hi)?; self.push(lo)?; Ok(())
push_u16(p, value) ==
    LET r1 == push(p, value \div 256)
    IN IF ~r1.ok THEN r1 ELSE push(r1.pdu, value % 256)

\* Mutant of extend: the bytes that fit are copied before the call fails.
extend_partial(p, bytes) ==
    LET n == Min(Len(bytes), MAX_PDU_SIZE - p.len)
    IN [ok |-> p.len + Len(bytes) <= MAX_PDU_SIZE,
        pdu |-> [data |-> [i \in DOMAIN p.data |->
                              IF i >= p.len /\ i < p.len + n
                              THEN bytes[i - p.len + 1] ELSE p.data[i]],
                 len |-> p.len + n]]

\* ModbusPdu::extend
extend(p, bytes) ==
    IF p.len + Len(bytes) > MAX_PDU_SIZE
    THEN [ok |-> FALSE, pdu |-> p]
    ELSE [ok |-> TRUE,
          pdu |-> [data |-> [i \in DOMAIN p.data |->
                                IF i >= p.len /\ i < p.len + Len(bytes)
                                THEN bytes[i - p.len + 1] ELSE p.data[i]],
                   len |-> p.len + Len(bytes)]]

\* ModbusPdu::from_slice (the PDU of the result; on Err there is none and the
\* model keeps ModbusPdu_new in its place)
from_slice(bytes) ==
    IF Len(bytes) > MAX_PDU_SIZE
    THEN [ok |-> FALSE, pdu |-> ModbusPdu_new]
    ELSE [ok |-> TRUE,
          pdu |-> [data |-> [i \in 0..(MAX_PDU_SIZE - 1) |->
                                IF i < Len(bytes) THEN bytes[i + 1] ELSE 0],
                   len |-> Len(bytes)]]

\* ModbusPdu::clear
pdu_clear(p) == [p EXCEPT !.len = 0]

\* ModbusPdu::as_slice: &self.data[..self.len]
as_slice(p) == [i \in 1..p.len |-> p.data[i - 1]]

\* ModbusPdu::as_mut_slice: &mut self.data[..self.len], and a store
\* `slice[index] = byte` through it (index < len; a larger index is outside
\* the slice and the indexing panics in the caller, the PDU untouched).
as_mut_slice(p, index, byte) == [p EXCEPT !.data[index] = byte]

\* The PDU held in the variables.
Pdu == [data |-> data, len |-> len]

\* The arguments of the PDU operations in the model.
PushBytes == {3, 171}
PushWords == {258}
SliceLens == {0, 2, 251, 253, 254}
SliceOf(n) == [i \in 1..n |-> (7 * i) % 256]
MutIndices == {0, 1, 252}
MutBytes == {0, 4, 255}

\* What a call leaves behind for the claims: its name, whether it returned
\* Ok, the length of its slice argument, and the PDU before it.
Called(op, ok, arg_len) ==
    [op |-> op, ok |-> ok, arg_len |-> arg_len, len |-> len, slice |-> as_slice(Pdu)]

\* pdu.push(b)
Push(b) ==
    /\ pdu_ops < MaxPduOps
    /\ LET r == push(Pdu, b)
       IN /\ data' = r.pdu.data
          /\ len' = r.pdu.len
          /\ appended' = IF r.ok THEN Append(appended, b) ELSE appended
          /\ overwritten' = overwritten
          /\ pdu_last' = Called("push", r.ok, 1)
    /\ pdu_ops' = pdu_ops + 1

\* pdu.push_u16(v)
PushU16(v) ==
    /\ pdu_ops < MaxPduOps
    /\ LET r1 == push(Pdu, v \div 256)
           r == push_u16(Pdu, v)
       IN /\ data' = r.pdu.data
          /\ len' = r.pdu.len
          /\ appended' = IF r.ok THEN appended \o <<v \div 256, v % 256>>
                         ELSE IF r1.ok THEN Append(appended, v \div 256)
                         ELSE appended
          /\ overwritten' = overwritten
          /\ pdu_last' = Called("push_u16", r.ok, 2)
    /\ pdu_ops' = pdu_ops + 1

\* pdu.extend(bytes)
Extend(bytes) ==
    /\ pdu_ops < MaxPduOps
    /\ LET r == extend(Pdu, bytes)
       IN /\ data' = r.pdu.data
          /\ len' = r.pdu.len
          /\ appended' = IF r.ok THEN appended \o bytes ELSE appended
          /\ overwritten' = overwritten
          /\ pdu_last' = Called("extend", r.ok, Len(bytes))
    /\ pdu_ops' = pdu_ops + 1

\* pdu = ModbusPdu::from_slice(bytes)?  (on Err the caller keeps the PDU it had)
FromSlice(bytes) ==
    /\ pdu_ops < MaxPduOps
    /\ LET r == from_slice(bytes)
       IN /\ data' = IF r.ok THEN r.pdu.data ELSE data
          /\ len' = IF r.ok THEN r.pdu.len ELSE len
          /\ appended' = IF r.ok THEN bytes ELSE appended
          /\ overwritten' = IF r.ok THEN {} ELSE overwritten
          /\ pdu_last' = Called("from_slice", r.ok, Len(bytes))
    /\ pdu_ops' = pdu_ops + 1

\* pdu.clear()
Clear ==
    /\ pdu_ops < MaxPduOps
    /\ LET q == pdu_clear(Pdu)
       IN /\ data' = q.data
          /\ len' = q.len
    /\ appended' = <<>>
    /\ overwritten' = {}
    /\ pdu_last' = Called("clear", TRUE, 0)
    /\ pdu_ops' = pdu_ops + 1

\* pdu.as_mut_slice()[index] = byte
AsMutSlice(index, byte) ==
    /\ pdu_ops < MaxPduOps
    /\ index < len
    /\ LET q == as_mut_slice(Pdu, index, byte)
       IN /\ data' = q.data
          /\ len' = q.len
    /\ appended' = appended
    /\ overwritten' = overwritten \cup {index}
    /\ pdu_last' = Called("as_mut_slice", TRUE, 1)
    /\ pdu_ops' = pdu_ops + 1

(***************************************************************************)
(* Values of the variables of a subsystem that a specification leaves out. *)
(***************************************************************************)
ChunkInit ==
    /\ pc = "idle"
    /\ fc = 0
    /\ req_address = 0
    /\ req_quantity = 0
    /\ limits = DeviceLimits_default
    /\ current_address = 0
    /\ remaining = 0
    /\ count = 0
    /\ result = <<>>
    /\ calls = <<>>
    /\ requests = <<>>
    /\ responses = <<>>
    /\ sleeps = <<>>
    /\ outcome = NoOutcome

\* CommandBatcher::with_config(w, m) at clock value 0.
BatcherInitWith(w, m) ==
    /\ pending_commands = EmptyMap
    /\ last_batch_time = 0
    /\ total_pending = 0
    /\ batch_window = w
    /\ max_batch_size = m
    /\ now = 0
    /\ ticks = 0
    /\ next_uid = 0
    /\ since = <<>>
    /\ taken = EmptyMap
    /\ taken_of = <<>>
    /\ take_count = <<>>
    /\ cleared = {}
    /\ last_take_time = 0
    /\ last_op = "new"
    /\ last_should = FALSE

\* ModbusPdu::new()
PduInit ==
    /\ data = ModbusPdu_new.data
    /\ len = ModbusPdu_new.len
    /\ appended = <<>>
    /\ overwritten = {}
    /\ pdu_ops = 0
    /\ pdu_last = [op |-> "new", ok |-> TRUE, arg_len |-> 0, len |-> 0, slice |-> <<>>]

(***************************************************************************)
(* Data type tags (codec.rs).  A tag is a Rust &str, modelled as the       *)
(* sequence of its characters so that to_lowercase() can act on it.  The   *)
(* tags of the model are ASCII.                                            *)
(***************************************************************************)
LowerCase ==
    "A" :> "a" @@ "B" :> "b" @@ "C" :> "c" @@ "D" :> "d" @@ "E" :> "e" @@ "F" :> "f" @@
    "G" :> "g" @@ "H" :> "h" @@ "I" :> "i" @@ "J" :> "j" @@ "K" :> "k" @@ "L" :> "l" @@
    "M" :> "m" @@ "N" :> "n" @@ "O" :> "o" @@ "P" :> "p" @@ "Q" :> "q" @@ "R" :> "r" @@
    "S" :> "s" @@ "T" :> "t" @@ "U" :> "u" @@ "V" :> "v" @@ "W" :> "w" @@ "X" :> "x" @@
    "Y" :> "y" @@ "Z" :> "z"

\* str::to_lowercase
to_lowercase(s) == [i \in 1..Len(s) |-> IF s[i] \in DOMAIN LowerCase THEN LowerCase[s[i]] ELSE s[i]]

\* The string literals of the match arms of codec.rs.
s_bool == <<"b", "o", "o", "l">>
s_boolean == <<"b", "o", "o", "l", "e", "a", "n">>
s_coil == <<"c", "o", "i", "l">>
s_uint16 == <<"u", "i", "n", "t", "1", "6">>
s_u16 == <<"u", "1", "6">>
s_word == <<"w", "o", "r", "d">>
s_int16 == <<"i", "n", "t", "1", "6">>
s_i16 == <<"i", "1", "6">>
s_short == <<"s", "h", "o", "r", "t">>
s_uint32 == <<"u", "i", "n", "t", "3", "2">>
s_u32 == <<"u", "3", "2">>
s_dword == <<"d", "w", "o", "r", "d">>
s_int32 == <<"i", "n", "t", "3", "2">>
s_i32 == <<"i", "3", "2">>
s_long == <<"l", "o", "n", "g">>
s_float32 == <<"f", "l", "o", "a", "t", "3", "2">>
s_f32 == <<"f", "3", "2">>
s_float == <<"f", "l", "o", "a", "t">>
s_real == <<"r", "e", "a", "l">>
s_uint64 == <<"u", "i", "n", "t", "6", "4">>
s_u64 == <<"u", "6", "4">>
s_qword == <<"q", "w", "o", "r", "d">>
s_int64 == <<"i", "n", "t", "6", "4">>
s_i64 == <<"i", "6", "4">>
s_longlong == <<"l", "o", "n", "g", "l", "o", "n", "g">>
s_float64 == <<"f", "l", "o", "a", "t", "6", "4">>
s_f64 == <<"f", "6", "4">>
s_double == <<"d", "o", "u", "b", "l", "e">>
s_lreal == <<"l", "r", "e", "a", "l">>

\* registers_for_type (codec.rs)
registers_for_type(data_type) ==
    LET t == to_lowercase(data_type)
    IN IF t \in {s_bool, s_boolean, s_coil} THEN 0
       ELSE IF t \in {s_uint16, s_u16, s_word, s_int16, s_i16, s_short} THEN 1
       ELSE IF t \in {s_uint32, s_u32, s_dword, s_int32, s_i32, s_long,
                      s_float32, s_f32, s_float, s_real} THEN 2
       ELSE IF t \in {s_uint64, s_u64, s_qword, s_int64, s_i64, s_longlong,
                      s_float64, s_f64, s_double, s_lreal} THEN 4
       ELSE 1

(***************************************************************************)
(* CommandBatcher::are_strictly_consecutive (batcher.rs).  Slices are      *)
(* sequences indexed from 1 where the code indexes from 0.                 *)
(***************************************************************************)
\* CommandBatcher::get_register_count: registers_for_type(data_type) as u16
get_register_count(data_type) == registers_for_type(data_type) % (U16_MAX + 1)

\* indices.sort_by_key(|&i| commands[i].register_address) on indices = 0..len:
\* a stable sort, so an index comes after every index with a smaller key and
\* after every smaller index with the same key.
sort_by_key(commands) ==
    LET n == Len(commands)
        key(i) == commands[i].register_address
        before(i) == {j \in 1..n : key(j) < key(i) \/ (key(j) = key(i) /\ j < i)}
    IN [p \in 1..n |-> CHOOSE i \in 1..n : Cardinality(before(i)) = p - 1]

\* What a call of are_strictly_consecutive did: it returned `value`, or it
\* panicked; `overflowed` records that `expected_addr += ...` left the u16 range.
Returned(v, o) == [kind |-> "returned", value |-> v, overflowed |-> o]
Panicked == [kind |-> "panicked", value |-> FALSE, overflowed |-> TRUE]

\* The loop `for &idx in &indices`, from position k with the running
\* expected_addr.  `expected_addr += count` on a u16 panics when the build
\* checks arithmetic overflow (overflow_checks) and wraps when it does not.
RECURSIVE consecutive_loop(_, _, _, _, _, _)
consecutive_loop(commands, indices, k, expected_addr, overflowed, overflow_checks) ==
    IF k > Len(indices) THEN Returned(TRUE, overflowed)
    ELSE LET idx == indices[k]
             sum == expected_addr + get_register_count(commands[idx].data_type)
         IN IF commands[idx].register_address # expected_addr
            THEN Returned(FALSE, overflowed)
            ELSE IF sum > U16_MAX /\ overflow_checks
            THEN Panicked
            ELSE consecutive_loop(commands, indices, k + 1, sum % (U16_MAX + 1),
                                  overflowed \/ sum > U16_MAX, overflow_checks)

\* CommandBatcher::are_strictly_consecutive
are_strictly_consecutive(commands, overflow_checks) ==
    IF Len(commands) < 2 THEN Returned(FALSE, FALSE)
    ELSE LET indices == sort_by_key(commands)
         IN consecutive_loop(commands, indices, 1,
                             commands[indices[1]].register_address, FALSE, overflow_checks)

(***************************************************************************)
(* PDU builders: PduBuilder (pdu.rs) and ModbusCodec (codec.rs).  A        *)
(* builder step is a function of the PDU built so far giving [ok, pdu], as *)
(* the ModbusPdu operations do; a build function gives [ok, pdu, err],     *)
(* where pdu is meaningful only when ok.                                   *)
(***************************************************************************)
\* `step(...)?` after the steps that gave r: on Err the function returns.
Try(r, step(_)) == IF r.ok THEN step(r.pdu) ELSE r

\* PduBuilder::new
PduBuilder_new == [ok |-> TRUE, pdu |-> ModbusPdu_new]
\* PduBuilder::function_code, address, quantity, byte, data
PduBuilder_function_code(p, f) == push(p, f)
PduBuilder_address(p, addr) == push_u16(p, addr)
PduBuilder_quantity(p, qty) == push_u16(p, qty)
PduBuilder_byte(p, b) == push(p, b)
PduBuilder_data(p, bytes) == extend(p, bytes)

\* What a build function returns: Ok(pdu), or Err of some ModbusError.
BuildOk(p) == [ok |-> TRUE, pdu |-> p, err |-> "none"]
BuildErr(e) == [ok |-> FALSE, pdu |-> ModbusPdu_new, err |-> e]
\* Ok(builder.build()) after a chain of steps; the steps fail with
\* ModbusError::Protocol (push, extend).
Built(r) == IF r.ok THEN BuildOk(r.pdu) ELSE BuildErr("Protocol")

\* PduBuilder::build_read_request
build_read_request(f, start_address, quantity) ==
    IF f \notin 1..4
    THEN BuildErr("InvalidFunction")
    ELSE Built(Try(Try(Try(PduBuilder_new,
                           LAMBDA p : PduBuilder_function_code(p, f)),
                       LAMBDA p : PduBuilder_address(p, start_address)),
                   LAMBDA p : PduBuilder_quantity(p, quantity)))

RECURSIVE BitsValue(_, _, _)
\* The byte holding coils lo..hi of values, coil lo in bit 0.
BitsValue(values, lo, hi) ==
    IF lo > hi THEN 0
    ELSE (IF values[lo] THEN 1 ELSE 0) + 2 * BitsValue(values, lo + 1, hi)

\* coil_bytes of build_write_multiple_coils: coil_bytes[i / 8] |= 1 << (i % 8)
coil_bytes(values, byte_count) ==
    [k \in 1..byte_count |->
        BitsValue(values, 8 * (k - 1) + 1, Min(8 * k, Len(values)))]

\* PduBuilder::build_write_multiple_coils
build_write_multiple_coils(address, values) ==
    LET quantity == Len(values) % (U16_MAX + 1)
        byte_count == (Len(values) + 7) \div 8
    IN Built(Try(Try(Try(Try(Try(PduBuilder_new,
                                 LAMBDA p : PduBuilder_function_code(p, 15)),
                             LAMBDA p : PduBuilder_address(p, address)),
                         LAMBDA p : PduBuilder_quantity(p, quantity)),
                     LAMBDA p : PduBuilder_byte(p, byte_count % 256)),
                 LAMBDA p : PduBuilder_data(p, coil_bytes(values, byte_count))))

\* A loop of `push(byte)?` over bytes, after the steps that gave r: the bytes
\* that fit are pushed in order, and the loop fails at the first that does not.
push_each(r, bytes) ==
    IF ~r.ok THEN r
    ELSE LET fit == Min(Len(bytes), MAX_PDU_SIZE - r.pdu.len)
         IN [ok |-> fit = Len(bytes),
             pdu |-> [data |-> [i \in DOMAIN r.pdu.data |->
                                   IF i >= r.pdu.len /\ i < r.pdu.len + fit
                                   THEN bytes[i - r.pdu.len + 1] ELSE r.pdu.data[i]],
                      len |-> r.pdu.len + fit]]

\* The bytes of the registers, each (value >> 8) as u8 then (value & 0xFF) as u8.
register_bytes(values) ==
    [i \in 1..(2 * Len(values)) |->
        IF i % 2 = 1 THEN values[(i + 1) \div 2] \div 256 ELSE values[i \div 2] % 256]

\* for &value in values { builder = builder.byte(hi)?.byte(lo)? }
push_registers(r, values) == push_each(r, register_bytes(values))

\* PduBuilder::build_write_multiple_registers
build_write_multiple_registers(address, values) ==
    LET quantity == Len(values) % (U16_MAX + 1)
        byte_count == (Len(values) * 2) % 256
    IN Built(push_registers(
                 Try(Try(Try(Try(PduBuilder_new,
                                 LAMBDA p : PduBuilder_function_code(p, 16)),
                             LAMBDA p : PduBuilder_address(p, address)),
                         LAMBDA p : PduBuilder_quantity(p, quantity)),
                     LAMBDA p : PduBuilder_byte(p, byte_count)),
                 values))

\* The loop `for &value in values` of build_fc15_pdu with its trailing
\* `if bit_index > 0`: current_byte is pushed after every 8 coils and once
\* more when coils are left over; pushed byte k holds coils 8(k-1)+1 .. 8k.
push_coils(r, values) ==
    push_each(r, [k \in 1..((Len(values) + 7) \div 8) |->
                     BitsValue(values, 8 * (k - 1) + 1, Min(8 * k, Len(values)))])

\* ModbusCodec::build_fc15_pdu
build_fc15_pdu(start_address, values) ==
    IF Len(values) = 0 \/ Len(values) > MAX_WRITE_COILS
    THEN BuildErr("InvalidData")
    ELSE LET quantity == Len(values) % (U16_MAX + 1)
             byte_count == ((Len(values) + 7) \div 8) % 256
         IN Built(push_coils(
                      Try(Try(Try(Try([ok |-> TRUE, pdu |-> ModbusPdu_new],
                                      LAMBDA p : push(p, 15)),
                                  LAMBDA p : push_u16(p, start_address)),
                              LAMBDA p : push_u16(p, quantity)),
                          LAMBDA p : push(p, byte_count)),
                      values))

\* for &value in values { pdu.push_u16(value)?; }
push_u16_each(r, values) == push_each(r, register_bytes(values))

\* ModbusCodec::build_fc16_pdu
build_fc16_pdu(start_address, values) ==
    IF Len(values) = 0 \/ Len(values) > MAX_WRITE_REGISTERS
    THEN BuildErr("InvalidData")
    ELSE LET quantity == Len(values) % (U16_MAX + 1)
             byte_count == (Len(values) * 2) % 256
         IN Built(push_u16_each(
                      Try(Try(Try(Try([ok |-> TRUE, pdu |-> ModbusPdu_new],
                                      LAMBDA p : push(p, 16)),
                                  LAMBDA p : push_u16(p, start_address)),
                              LAMBDA p : push_u16(p, quantity)),
                          LAMBDA p : push(p, byte_count)),
                      values))

(***************************************************************************)
(* Byte order conversions (bytes.rs).  Arrays are sequences indexed from 1 *)
(* where the code indexes from 0.  An i32 is an integer; a u32, u64 or i64 *)
(* is held as its 16-bit digits, most significant first (2 or 4 of them),  *)
(* the i64 in two's complement.                                            *)
(***************************************************************************)
ByteOrders == {"BigEndian", "LittleEndian", "BigEndianSwap", "LittleEndianSwap",
               "BigEndian16", "LittleEndian16"}

\* u16::to_be_bytes, u16::from_be_bytes
u16_to_be_bytes(v) == <<v \div 256, v % 256>>
u16_from_be_bytes(b) == b[1] * 256 + b[2]

\* Mutant of regs_to_bytes_4: the BigEndianSwap arm leaves the words in place.
regs_to_bytes_4_no_swap(regs, order) ==
    LET h0 == u16_to_be_bytes(regs[1])
        h1 == u16_to_be_bytes(regs[2])
    IN CASE order \in {"BigEndian", "BigEndian16"} -> <<h0[1], h0[2], h1[1], h1[2]>>
         [] order \in {"LittleEndian", "LittleEndian16"} -> <<h1[2], h1[1], h0[2], h0[1]>>
         [] order = "BigEndianSwap" -> <<h0[1], h0[2], h1[1], h1[2]>>
         [] order = "LittleEndianSwap" -> <<h0[2], h0[1], h1[2], h1[1]>>

\* regs_to_bytes_4
regs_to_bytes_4(regs, order) ==
    LET h0 == u16_to_be_bytes(regs[1])
        h1 == u16_to_be_bytes(regs[2])
    IN CASE order \in {"BigEndian", "BigEndian16"} -> <<h0[1], h0[2], h1[1], h1[2]>>
         [] order \in {"LittleEndian", "LittleEndian16"} -> <<h1[2], h1[1], h0[2], h0[1]>>
         [] order = "BigEndianSwap" -> <<h1[1], h1[2], h0[1], h0[2]>>
         [] order = "LittleEndianSwap" -> <<h0[2], h0[1], h1[2], h1[1]>>

\* regs_to_bytes_8
regs_to_bytes_8(regs, order) ==
    LET h0 == u16_to_be_bytes(regs[1])
        h1 == u16_to_be_bytes(regs[2])
        h2 == u16_to_be_bytes(regs[3])
        h3 == u16_to_be_bytes(regs[4])
    IN CASE order \in {"BigEndian", "BigEndian16"} ->
              <<h0[1], h0[2], h1[1], h1[2], h2[1], h2[2], h3[1], h3[2]>>
         [] order \in {"LittleEndian", "LittleEndian16"} ->
              <<h3[2], h3[1], h2[2], h2[1], h1[2], h1[1], h0[2], h0[1]>>
         [] order = "BigEndianSwap" ->
              <<h3[1], h3[2], h2[1], h2[2], h1[1], h1[2], h0[1], h0[2]>>
         [] order = "LittleEndianSwap" ->
              <<h0[2], h0[1], h1[2], h1[1], h2[2], h2[1], h3[2], h3[1]>>

\* bytes_4_to_regs
bytes_4_to_regs(bytes, order) ==
    CASE order \in {"BigEndian", "BigEndian16"} ->
           <<u16_from_be_bytes(<<bytes[1], bytes[2]>>), u16_from_be_bytes(<<bytes[3], bytes[4]>>)>>
      [] order \in {"LittleEndian", "LittleEndian16"} ->
           <<u16_from_be_bytes(<<bytes[4], bytes[3]>>), u16_from_be_bytes(<<bytes[2], bytes[1]>>)>>
      [] order = "BigEndianSwap" ->
           <<u16_from_be_bytes(<<bytes[3], bytes[4]>>), u16_from_be_bytes(<<bytes[1], bytes[2]>>)>>
      [] order = "LittleEndianSwap" ->
           <<u16_from_be_bytes(<<bytes[2], bytes[1]>>), u16_from_be_bytes(<<bytes[4], bytes[3]>>)>>

\* Mutant of bytes_8_to_regs: the LittleEndian arm reverses the bytes of each
\* word but not the order of the words.
bytes_8_to_regs_words_kept(bytes, order) ==
    CASE order \in {"BigEndian", "BigEndian16"} ->
           <<u16_from_be_bytes(<<bytes[1], bytes[2]>>), u16_from_be_bytes(<<bytes[3], bytes[4]>>),
             u16_from_be_bytes(<<bytes[5], bytes[6]>>), u16_from_be_bytes(<<bytes[7], bytes[8]>>)>>
      [] order \in {"LittleEndian", "LittleEndian16"} ->
           <<u16_from_be_bytes(<<bytes[2], bytes[1]>>), u16_from_be_bytes(<<bytes[4], bytes[3]>>),
             u16_from_be_bytes(<<bytes[6], bytes[5]>>), u16_from_be_bytes(<<bytes[8], bytes[7]>>)>>
      [] order = "BigEndianSwap" ->
           <<u16_from_be_bytes(<<bytes[7], bytes[8]>>), u16_from_be_bytes(<<bytes[5], bytes[6]>>),
             u16_from_be_bytes(<<bytes[3], bytes[4]>>), u16_from_be_bytes(<<bytes[1], bytes[2]>>)>>
      [] order = "LittleEndianSwap" ->
           <<u16_from_be_bytes(<<bytes[2], bytes[1]>>), u16_from_be_bytes(<<bytes[4], bytes[3]>>),
             u16_from_be_bytes(<<bytes[6], bytes[5]>>), u16_from_be_bytes(<<bytes[8], bytes[7]>>)>>

\* bytes_8_to_regs
bytes_8_to_regs(bytes, order) ==
    CASE order \in {"BigEndian", "BigEndian16"} ->
           <<u16_from_be_bytes(<<bytes[1], bytes[2]>>), u16_from_be_bytes(<<bytes[3], bytes[4]>>),
             u16_from_be_bytes(<<bytes[5], bytes[6]>>), u16_from_be_bytes(<<bytes[7], bytes[8]>>)>>
      [] order \in {"LittleEndian", "LittleEndian16"} ->
           <<u16_from_be_bytes(<<bytes[8], bytes[7]>>), u16_from_be_bytes(<<bytes[6], bytes[5]>>),
             u16_from_be_bytes(<<bytes[4], bytes[3]>>), u16_from_be_bytes(<<bytes[2], bytes[1]>>)>>
      [] order = "BigEndianSwap" ->
           <<u16_from_be_bytes(<<bytes[7], bytes[8]>>), u16_from_be_bytes(<<bytes[5], bytes[6]>>),
             u16_from_be_bytes(<<bytes[3], bytes[4]>>), u16_from_be_bytes(<<bytes[1], bytes[2]>>)>>
      [] order = "LittleEndianSwap" ->
           <<u16_from_be_bytes(<<bytes[2], bytes[1]>>), u16_from_be_bytes(<<bytes[4], bytes[3]>>),
             u16_from_be_bytes(<<bytes[6], bytes[5]>>), u16_from_be_bytes(<<bytes[8], bytes[7]>>)>>

\* u32::to_be_bytes / u64::to_be_bytes and from_be_bytes on 16-bit digits.
digits_to_be_bytes(d) ==
    [i \in 1..(2 * Len(d)) |-> IF i % 2 = 1 THEN d[(i + 1) \div 2] \div 256 ELSE d[i \div 2] % 256]
digits_from_be_bytes(b) ==
    [k \in 1..(Len(b) \div 2) |-> b[2 * k - 1] * 256 + b[2 * k]]

\* `value as u32` for an i32 (two's complement), and i32::from_be_bytes.
i32_as_u32(v) == <<(v \div 65536) % 65536, v % 65536>>
i32_from_be_bytes(b) ==
    (IF b[1] >= 128 THEN b[1] - 256 ELSE b[1]) * 16777216 + b[2] * 65536 + b[3] * 256 + b[4]

\* u32_to_regs, i32_to_regs, u64_to_regs, i64_to_regs
u32_to_regs(value, order) == bytes_4_to_regs(digits_to_be_bytes(value), order)
i32_to_regs(value, order) == u32_to_regs(i32_as_u32(value), order)
u64_to_regs(value, order) == bytes_8_to_regs(digits_to_be_bytes(value), order)
i64_to_regs(value, order) == u64_to_regs(value, order)

\* regs_to_u32, regs_to_i32, regs_to_u64, regs_to_i64
regs_to_u32(regs, order) == digits_from_be_bytes(regs_to_bytes_4(regs, order))
regs_to_i32(regs, order) == i32_from_be_bytes(regs_to_bytes_4(regs, order))
regs_to_u64(regs, order) == digits_from_be_bytes(regs_to_bytes_8(regs, order))
regs_to_i64(regs, order) == digits_from_be_bytes(regs_to_bytes_8(regs, order))

(***************************************************************************)
(* Value codec (codec.rs).  A ModbusValue is [variant, v]: v is a boolean  *)
(* for Bool, an integer for U16, I16 and I32, the 16-bit digits of the     *)
(* value for U32, U64 and I64, and the 16-bit digits of the IEEE 754 bit   *)
(* pattern for F32 and F64 (from_be_bytes reads the bits as they are).     *)
(***************************************************************************)
ModbusValue(variant, v) == [variant |-> variant, v |-> v]

\* ModbusError::InvalidData { message }: the message is its text and the
\* value formatted into it (<<>> where the text has no placeholder).
InvalidData(text, arg) == [kind |-> "InvalidData", text |-> text, arg |-> arg]

\* What a codec function returns: Ok(value) or Err(error).
CodecOk(v) == [ok |-> TRUE, value |-> v]
CodecErr(e) == [ok |-> FALSE, err |-> e]

\* `registers[0] as i16`
u16_as_i16(v) == IF v >= 32768 THEN v - 65536 ELSE v

RECURSIVE pow2(_)
pow2(n) == IF n = 0 THEN 1 ELSE 2 * pow2(n - 1)

\* `if bit_position > 15` of the boolean arm
bit_position_invalid(bit_position) == bit_position > 15

\* decode_register_value
decode_register_value(registers, data_type, bit_position, byte_order) ==
    LET t == to_lowercase(data_type)
    IN IF t \in {s_bool, s_boolean, s_coil}
       THEN IF Len(registers) = 0
            THEN CodecErr(InvalidData("No registers for bool", <<>>))
            ELSE IF bit_position_invalid(bit_position)
            THEN CodecErr(InvalidData("Invalid bit position: {} (must be 0-15)", bit_position))
            ELSE CodecOk(ModbusValue("Bool",
                     ((registers[1] \div pow2(bit_position)) % 2) # 0))
       ELSE IF t \in {s_uint16, s_u16, s_word}
       THEN IF Len(registers) < 1
            THEN CodecErr(InvalidData("No registers for uint16", <<>>))
            ELSE CodecOk(ModbusValue("U16", registers[1]))
       ELSE IF t \in {s_int16, s_i16, s_short}
       THEN IF Len(registers) < 1
            THEN CodecErr(InvalidData("No registers for int16", <<>>))
            ELSE CodecOk(ModbusValue("I16", u16_as_i16(registers[1])))
       ELSE IF t \in {s_uint32, s_u32, s_dword}
       THEN IF Len(registers) < 2
            THEN CodecErr(InvalidData("Not enough registers for uint32", <<>>))
            ELSE CodecOk(ModbusValue("U32", digits_from_be_bytes(regs_to_bytes_4(SubSeq(registers, 1, 2), byte_order))))
       ELSE IF t \in {s_int32, s_i32, s_long}
       THEN IF Len(registers) < 2
            THEN CodecErr(InvalidData("Not enough registers for int32", <<>>))
            ELSE CodecOk(ModbusValue("I32", i32_from_be_bytes(regs_to_bytes_4(SubSeq(registers, 1, 2), byte_order))))
       ELSE IF t \in {s_float32, s_f32, s_float, s_real}
       THEN IF Len(registers) < 2
            THEN CodecErr(InvalidData("Not enough registers for float32", <<>>))
            ELSE CodecOk(ModbusValue("F32", digits_from_be_bytes(regs_to_bytes_4(SubSeq(registers, 1, 2), byte_order))))
       ELSE IF t \in {s_uint64, s_u64, s_qword}
       THEN IF Len(registers) < 4
            THEN CodecErr(InvalidData("Not enough registers for uint64", <<>>))
            ELSE CodecOk(ModbusValue("U64", digits_from_be_bytes(regs_to_bytes_8(SubSeq(registers, 1, 4), byte_order))))
       ELSE IF t \in {s_int64, s_i64, s_longlong}
       THEN IF Len(registers) < 4
            THEN CodecErr(InvalidData("Not enough registers for int64", <<>>))
            ELSE CodecOk(ModbusValue("I64", digits_from_be_bytes(regs_to_bytes_8(SubSeq(registers, 1, 4), byte_order))))
       ELSE IF t \in {s_float64, s_f64, s_double, s_lreal}
       THEN IF Len(registers) < 4
            THEN CodecErr(InvalidData("Not enough registers for float64", <<>>))
            ELSE CodecOk(ModbusValue("F64", digits_from_be_bytes(regs_to_bytes_8(SubSeq(registers, 1, 4), byte_order))))
       ELSE CodecErr(InvalidData("Unsupported data type: {}", data_type))

(***************************************************************************)
(* Encoding from f64 (codec.rs).  The f64 values of the model are whole    *)
(* numbers of the i32 range, held as integers; their IEEE 754 bit patterns *)
(* are tabulated.  A clamp bound outside that range is Beyond.             *)
(***************************************************************************)
F64Values == {-40000, -1, 0, 1, 25, 70000}
\* f64::to_be_bytes and (v as f32).to_be_bytes, as 16-bit digits
F64Bits ==
    -40000 :> <<49379, 34816, 0, 0>> @@ -1 :> <<49136, 0, 0, 0>>
    @@ 0 :> <<0, 0, 0, 0>> @@ 1 :> <<16368, 0, 0, 0>>
    @@ 25 :> <<16441, 0, 0, 0>> @@ 70000 :> <<16625, 5888, 0, 0>>
F32Bits ==
    -40000 :> <<50972, 16384>> @@ -1 :> <<49024, 0>> @@ 0 :> <<0, 0>> @@ 1 :> <<16256, 0>> @@ 25 :> <<16840, 0>> @@ 70000 :> <<18312, 47104>>

Bound(v) == [beyond |-> FALSE, v |-> v]
Beyond == [beyond |-> TRUE, v |-> 0]

\* f64::clamp(min, max)
f64_clamp(value, min, max) ==
    IF ~min.beyond /\ value < min.v THEN min.v
    ELSE IF ~max.beyond /\ value > max.v THEN max.v
    ELSE value

\* clamp_to_data_type
clamp_to_data_type(value, data_type) ==
    LET t == to_lowercase(data_type)
    IN IF t \in {s_uint16, s_u16} THEN f64_clamp(value, Bound(0), Bound(65535))
       ELSE IF t \in {s_int16, s_i16} THEN f64_clamp(value, Bound(-32768), Bound(32767))
       ELSE IF t \in {s_uint32, s_u32} THEN f64_clamp(value, Bound(0), Beyond)
       ELSE IF t \in {s_int32, s_i32}
            THEN f64_clamp(value, Bound(-2147483647 - 1), Bound(2147483647))
       ELSE IF t \in {s_uint64, s_u64} THEN f64_clamp(value, Bound(0), Beyond)
       ELSE IF t \in {s_int64, s_i64} THEN f64_clamp(value, Beyond, Beyond)
       ELSE IF t \in {s_float32, s_f32} THEN f64_clamp(value, Beyond, Beyond)
       ELSE IF t \in {s_float64, s_f64} THEN f64_clamp(value, Beyond, Beyond)
       ELSE IF t \in {s_bool, s_boolean, s_coil} THEN value
       ELSE value

\* The saturating casts `as u16`, `as i16`, `as u32`, `as u64` of an f64.
f64_as_u16(v) == IF v < 0 THEN 0 ELSE IF v > 65535 THEN 65535 ELSE v
f64_as_i16(v) == IF v < -32768 THEN -32768 ELSE IF v > 32767 THEN 32767 ELSE v
f64_as_unsigned(v) == IF v < 0 THEN 0 ELSE v
\* `as u16` of an i16
i16_as_u16(v) == v % (U16_MAX + 1)
\* to_be_bytes of a u32 / i32 / u64 / i64 held as an integer
int_to_be_bytes_4(v) == digits_to_be_bytes(<<(v \div 65536) % 65536, v % 65536>>)
int_to_be_bytes_8(v) ==
    digits_to_be_bytes(<<IF v < 0 THEN 65535 ELSE 0, IF v < 0 THEN 65535 ELSE 0,
                         (v \div 65536) % 65536, v % 65536>>)

\* The default arm of encode_f64_as_type
encode_unknown_type(clamped, data_type) ==
    CodecErr(InvalidData("Unsupported data type: {}", data_type))

\* encode_f64_as_type
encode_f64_as_type(value, data_type, byte_order) ==
    LET clamped == clamp_to_data_type(value, data_type)
        t == to_lowercase(data_type)
    IN IF t \in {s_bool, s_boolean, s_coil}
       THEN CodecOk(<<IF clamped # 0 THEN 1 ELSE 0>>)
       ELSE IF t \in {s_uint16, s_u16, s_word}
       THEN CodecOk(<<f64_as_u16(clamped)>>)
       ELSE IF t \in {s_int16, s_i16, s_short}
       THEN CodecOk(<<i16_as_u16(f64_as_i16(clamped))>>)
       ELSE IF t \in {s_uint32, s_u32, s_dword}
       THEN CodecOk(bytes_4_to_regs(int_to_be_bytes_4(f64_as_unsigned(clamped)), byte_order))
       ELSE IF t \in {s_int32, s_i32, s_long}
       THEN CodecOk(bytes_4_to_regs(int_to_be_bytes_4(clamped), byte_order))
       ELSE IF t \in {s_float32, s_f32, s_float, s_real}
       THEN CodecOk(bytes_4_to_regs(digits_to_be_bytes(F32Bits[clamped]), byte_order))
       ELSE IF t \in {s_uint64, s_u64, s_qword}
       THEN CodecOk(bytes_8_to_regs(int_to_be_bytes_8(f64_as_unsigned(clamped)), byte_order))
       ELSE IF t \in {s_int64, s_i64, s_longlong}
       THEN CodecOk(bytes_8_to_regs(int_to_be_bytes_8(clamped), byte_order))
       ELSE IF t \in {s_float64, s_f64, s_double, s_lreal}
       THEN CodecOk(bytes_8_to_regs(digits_to_be_bytes(F64Bits[clamped]), byte_order))
       ELSE encode_unknown_type(clamped, data_type)

(***************************************************************************)
(* Parsing a read response (codec.rs).                                     *)
(***************************************************************************)
\* ModbusError::Protocol with its message and the values formatted into it
ProtocolError(text, args) == [kind |-> "Protocol", text |-> text, args |-> args]

\* ModbusPdu::function_code, an Option held as a sequence of at most one byte
ModbusPdu_function_code(p) == IF p.len > 0 THEN <<p.data[0]>> ELSE <<>>
\* Option::unwrap_or
unwrap_or(o, default) == IF o = <<>> THEN default ELSE o[1]

\* Mutant of function_code_differs: only an exception code is a mismatch.
function_code_differs_exception_only(actual_fc, function_code) ==
    actual_fc >= 128 /\ actual_fc # function_code

\* actual_fc != function_code
function_code_differs(actual_fc, function_code) == actual_fc # function_code

\* Mutant of register_from_pair: the low byte comes first.
register_from_pair_low_first(b0, b1) == ((b1 * 256) % 65536) + b0

\* (u16::from(b0) << 8) | u16::from(b1)
register_from_pair(b0, b1) == ((b0 * 256) % 65536) + b1

\* The loop `for i in 0..complete_pairs` of parse_read_response; pdu_data is
\* the slice, whose Rust index k is position k + 1 here.
RECURSIVE parse_registers_loop(_, _, _, _)
parse_registers_loop(pdu_data, i, complete_pairs, registers) ==
    IF i >= complete_pairs THEN registers
    ELSE LET offset == 2 + i * 2
         IN parse_registers_loop(pdu_data, i + 1, complete_pairs,
                IF offset + 1 < Len(pdu_data)
                THEN Append(registers,
                            register_from_pair(pdu_data[offset + 1], pdu_data[offset + 2]))
                ELSE registers)

\* parse_read_response; expected_count only feeds the unused _expected_bytes.
parse_read_response(pdu, function_code, expected_count) ==
    LET pdu_data == as_slice(pdu)
    IN IF Len(pdu_data) < 2 THEN CodecOk(<<>>)
       ELSE LET actual_fc == unwrap_or(ModbusPdu_function_code(pdu), 0)
            IN IF function_code_differs(actual_fc, function_code)
               THEN CodecErr(ProtocolError("Function code mismatch: expected {}, got {}",
                                           <<function_code, actual_fc>>))
               ELSE LET byte_count == pdu_data[2]
                        available_bytes == IF Len(pdu_data) < 2 THEN 0 ELSE Len(pdu_data) - 2
                        actual_byte_count == Min(byte_count, available_bytes)
                    IN IF function_code \in {1, 2}
                       THEN CodecOk([k \in 1..actual_byte_count |-> pdu_data[2 + k]])
                       ELSE IF function_code \in {3, 4}
                       THEN CodecOk(parse_registers_loop(pdu_data, 0,
                                                         actual_byte_count \div 2, <<>>))
                       ELSE CodecErr(ProtocolError("Unsupported function code: {}",
                                                   <<function_code>>))

(***************************************************************************)
(* Single-register helpers (bytes.rs).                                     *)
(***************************************************************************)
\* u16::to_le_bytes
u16_to_le_bytes(v) == <<v % 256, v \div 256>>
\* u16::swap_bytes
swap_bytes(v) == (v % 256) * 256 + (v \div 256)

\* reg_to_bytes_2
reg_to_bytes_2(reg, order) ==
    IF order \in {"BigEndian", "BigEndian16"} THEN u16_to_be_bytes(reg)
    ELSE IF order \in {"LittleEndian", "LittleEndian16"} THEN u16_to_le_bytes(reg)
    ELSE u16_to_be_bytes(reg)

\* reg_to_u16
reg_to_u16(reg, order) == IF order = "LittleEndian16" THEN swap_bytes(reg) ELSE reg

\* reg_to_i16
reg_to_i16(reg, order) == u16_as_i16(reg_to_u16(reg, order))

(***************************************************************************)
(* Encoding a ModbusValue (codec.rs, value.rs).  The payload of a variant  *)
(* is held as decode_register_value gives it: a boolean for Bool, an       *)
(* integer for U16, I16 and I32, 16-bit digits for U32, U64 and I64, and   *)
(* the 16-bit digits of the IEEE 754 bit pattern for F32 and F64.          *)
(***************************************************************************)
\* ModbusValue::register_count
register_count(value) ==
    IF value.variant = "Bool" THEN 0
    ELSE IF value.variant \in {"U16", "I16"} THEN 1
    ELSE IF value.variant \in {"U32", "I32", "F32"} THEN 2
    ELSE 4

\* ModbusValue::type_name
type_name(value) ==
    IF value.variant = "Bool" THEN s_bool
    ELSE IF value.variant = "U16" THEN s_u16
    ELSE IF value.variant = "I16" THEN s_i16
    ELSE IF value.variant = "U32" THEN s_u32
    ELSE IF value.variant = "I32" THEN s_i32
    ELSE IF value.variant = "F32" THEN s_f32
    ELSE IF value.variant = "U64" THEN s_u64
    ELSE IF value.variant = "I64" THEN s_i64
    ELSE s_f64

\* encode_value
encode_value(value, byte_order) ==
    IF value.variant = "Bool" THEN CodecOk(<<IF value.v THEN 1 ELSE 0>>)
    ELSE IF value.variant = "U16" THEN CodecOk(<<value.v>>)
    ELSE IF value.variant = "I16" THEN CodecOk(<<i16_as_u16(value.v)>>)
    ELSE IF value.variant = "U32"
    THEN CodecOk(bytes_4_to_regs(digits_to_be_bytes(value.v), byte_order))
    ELSE IF value.variant = "I32"
    THEN CodecOk(bytes_4_to_regs(digits_to_be_bytes(i32_as_u32(value.v)), byte_order))
    ELSE IF value.variant = "F32"
    THEN CodecOk(bytes_4_to_regs(digits_to_be_bytes(value.v), byte_order))
    ELSE CodecOk(bytes_8_to_regs(digits_to_be_bytes(value.v), byte_order))

\* No pure function has been called.
NotCalled == [kind |-> "none"]
PureInit ==
    /\ fn_args = [fn |-> "none"]
    /\ fn_ret = NotCalled

(***************************************************************************)
(* Specification of the chunked read.                                      *)
(***************************************************************************)
Init ==
    /\ ChunkInit
    /\ BatcherInitWith(DEFAULT_BATCH_WINDOW_MS, DEFAULT_MAX_BATCH_SIZE)
    /\ PduInit
    /\ PureInit

\* The calls made in the model: those needing at most MaxChunks sub-requests.
CallInBounds(f, q, lim) ==
    IF chunk_limit(f, lim) = 0
    THEN TRUE
    ELSE ChunksNeeded(q, chunk_limit(f, lim)) <= MaxChunks

Call ==
    \E f \in FunctionCodes, a \in Addresses, q \in Quantities, lim \in LimitsSet :
        /\ CallInBounds(f, q, lim)
        /\ read_batch(f, a, q, lim)
        /\ UNCHANGED <<batcherVars, pduVars, pureVars>>

Next ==
    \/ Call
    \/ transport_response_ok
    \/ transport_response_err
    \/ sleep_elapsed

Spec == Init /\ [][Next]_vars

(***************************************************************************)
(* Claims about the chunked read.                                          *)
(***************************************************************************)
RECURSIVE Flatten(_)
\* The concatenation of the data of the successful sub-requests of a log.
Flatten(log) ==
    IF log = <<>> THEN <<>>
    ELSE (IF Head(log).kind = "ok" THEN Head(log).value ELSE <<>>) \o Flatten(Tail(log))

RECURSIVE SumQuantity(_)
SumQuantity(cs) == IF cs = <<>> THEN 0 ELSE Head(cs).quantity + SumQuantity(Tail(cs))

AllOk(log) == \A i \in DOMAIN log : log[i].kind = "ok"

\* C1: once a sub-request of a chunked read has returned an error, the read
\* has returned that same error, the failed sub-request is the last one made,
\* and nothing of what earlier sub-requests read is returned.
C1_ErrorAborts ==
    \A i \in DOMAIN responses :
        responses[i].kind = "err" =>
            /\ pc = "done"
            /\ outcome.kind = "err"
            /\ outcome.err = responses[i].err
            /\ outcome.value = <<>>
            /\ i = Len(responses)
            /\ Len(calls) = i

\* A read whose second sub-request failed after the first had delivered data.
C1_Witness ==
    /\ pc = "done"
    /\ Len(responses) = 2
    /\ responses[1].kind = "ok"
    /\ responses[2].kind = "err"
    /\ responses[2].err = "Timeout"
    /\ result # <<>>
    /\ remaining > count

\* C2: in a chunked read of quantity q > 0 at address a with device limit
\* L >= 1 whose sub-requests all succeed, the i-th sub-request (from 0) asks
\* for min(L, q - i*L) elements at address min(a + i*L, 65535); every
\* quantity is in 1..L, every sub-request reaches the transport, and when the
\* read has returned the quantities sum to q.
C2_ChunkLayout ==
    LET L == chunk_limit(fc, limits)
        q == req_quantity
        a == req_address
    IN (pc # "idle" /\ q > 0 /\ L >= 1 /\ AllOk(responses)) =>
        /\ \A k \in DOMAIN calls :
              /\ calls[k].quantity = Min(L, q - (k - 1) * L)
              /\ calls[k].address = Min(a + (k - 1) * L, U16_MAX)
              /\ calls[k].quantity >= 1
              /\ calls[k].quantity <= L
              /\ calls[k].function = fc
        /\ requests = calls
        /\ (pc = "done" => SumQuantity(calls) = q)

\* The read of 120 registers at 0 with a limit of 50: (0,50), (50,50), (100,20).
C2_Witness ==
    /\ pc = "done"
    /\ outcome.kind = "ok"
    /\ req_quantity = 120
    /\ limits.max_read_registers = 50
    /\ requests = << [function |-> 3, address |-> 0, quantity |-> 50],
                     [function |-> 3, address |-> 50, quantity |-> 50],
                     [function |-> 3, address |-> 100, quantity |-> 20] >>

\* C3: the accumulator of a chunked read is at every moment the
\* concatenation, in the order the sub-requests were made, of the data they
\* returned, a successful read returns exactly that concatenation, and the
\* sub-requests are made in ascending (never decreasing) address order.
C3_ConcatInOrder ==
    /\ result = Flatten(responses)
    /\ (pc = "done" /\ outcome.kind = "ok") =>
            /\ outcome.value = Flatten(responses)
            /\ Len(responses) = Len(calls)
    /\ \A i, j \in DOMAIN calls : i < j => calls[i].address <= calls[j].address

\* A successful read of three sub-requests whose data differ.
C3_Witness ==
    /\ pc = "done"
    /\ outcome.kind = "ok"
    /\ Len(responses) = 3
    /\ responses[1].value # responses[2].value
    /\ responses[2].value # responses[3].value
    /\ outcome.value = responses[1].value \o responses[2].value \o responses[3].value

\* C4: a chunked read of quantity 0 makes no sub-request, hands nothing to
\* the transport and returns an empty success, whatever the address and the
\* DeviceLimits.
C4_ZeroQuantity ==
    (pc # "idle" /\ req_quantity = 0) =>
        /\ pc = "done"
        /\ outcome = Ok(<<>>)
        /\ calls = <<>>
        /\ requests = <<>>
        /\ sleeps = <<>>

\* A read of quantity 0 with a device limit of 0 at the top of the address space.
C4_Witness ==
    /\ pc = "done"
    /\ req_quantity = 0
    /\ req_address = 65534
    /\ chunk_limit(fc, limits) = 0
    /\ limits.inter_request_delay_ms > 0
    /\ outcome.kind = "ok"

(***************************************************************************)
(* Specification of the CommandBatcher: constructed by new() or            *)
(* with_config(w, m), then driven by one caller.                           *)
(***************************************************************************)
\* new(), with_config(2, 2) and with_config(0, 0)
BatcherConfigs ==
    { [window |-> DEFAULT_BATCH_WINDOW_MS, size |-> DEFAULT_MAX_BATCH_SIZE],
      [window |-> 2, size |-> 2],
      [window |-> 0, size |-> 0] }

InitBatcher ==
    /\ ChunkInit
    /\ \E cfg \in BatcherConfigs : BatcherInitWith(cfg.window, cfg.size)
    /\ PduInit
    /\ PureInit

AddCommand ==
    /\ \E command \in BatchCommands : add_command(command)
    /\ UNCHANGED <<chunkVars, pduVars, pureVars>>

TakeCommands == take_commands /\ UNCHANGED <<chunkVars, pduVars, pureVars>>

ClearCommands == clear /\ UNCHANGED <<chunkVars, pduVars, pureVars>>

ShouldExecute == should_execute_call /\ UNCHANGED <<chunkVars, pduVars, pureVars>>

TimePasses ==
    /\ \E d \in TickSteps : Tick(d)
    /\ UNCHANGED <<chunkVars, pduVars, pureVars>>

NextBatcher ==
    \/ AddCommand
    \/ TakeCommands
    \/ ClearCommands
    \/ ShouldExecute
    \/ TimePasses

SpecBatcher == InitBatcher /\ [][NextBatcher]_vars

(***************************************************************************)
(* Claims about the CommandBatcher.                                        *)
(***************************************************************************)
RECURSIVE SumLens(_, _)
\* The sum of the lengths of the sequences of a grouped map over the keys ks.
SumLens(m, ks) ==
    IF ks = {} THEN 0
    ELSE LET k == CHOOSE x \in ks : TRUE
         IN Len(m[k]) + SumLens(m, ks \ {k})

\* The commands of a sequence whose own (slave_id, function_code) is k.
OfKey(cs, k) == SelectSeq(cs, LAMBDA c : <<c.slave_id, c.function_code>> = k)

SinceUids == {since[i].uid : i \in DOMAIN since}

\* C5: pending_count() is the sum of the lengths of the pending sequences of
\* all (slave_id, function_code) groups, and is_empty() holds exactly when
\* no command is pending.
C5_PendingCount ==
    /\ pending_count = SumLens(pending_commands, DOMAIN pending_commands)
    /\ is_empty <=> (\A k \in DOMAIN pending_commands : pending_commands[k] = <<>>)

\* Commands were added to two groups, cleared, and one more was added.
C5_Witness ==
    /\ last_op = "add_command"
    /\ cleared # {}
    /\ Cardinality(cleared) = 2
    /\ pending_count = 1
    /\ ~is_empty

\* C6: right after take_commands, the returned map holds under every key
\* exactly the commands with that (slave_id, function_code) added since the
\* previous take_commands/clear, in the order they were added, every such
\* command is under a key of the map, and the batcher holds no command and
\* counts 0.
C6_TakeReturnsAll ==
    last_op = "take_commands" =>
        /\ \A k \in DOMAIN taken : taken[k] = OfKey(taken_of, k)
        /\ \A i \in DOMAIN taken_of :
              <<taken_of[i].slave_id, taken_of[i].function_code>> \in DOMAIN taken
        /\ \A k \in DOMAIN pending_commands : pending_commands[k] = <<>>
        /\ pending_commands = EmptyMap
        /\ pending_count = 0

\* A take_commands that returned three commands in two groups, two of them
\* in one group.
C6_Witness ==
    /\ last_op = "take_commands"
    /\ Len(taken_of) = 3
    /\ Cardinality(DOMAIN taken) = 2
    /\ <<1, 6>> \in DOMAIN taken
    /\ Len(taken[<<1, 6>>]) = 2
    /\ taken[<<1, 6>>][1].uid < taken[<<1, 6>>][2].uid

\* C7: no command is returned by two take_commands calls; a command that was
\* returned is no longer pending; and every command added before the last
\* take_commands/clear was returned by a take_commands unless a clear
\* discarded it, so that only commands added since are pending.
C7_ReturnedOnce ==
    /\ \A u \in DOMAIN take_count :
          /\ take_count[u] <= 1
          /\ take_count[u] >= 1 => u \notin UidsOf(pending_commands)
          /\ (u \notin SinceUids /\ u \notin cleared) => take_count[u] = 1
    /\ UidsOf(pending_commands) = SinceUids
    /\ DOMAIN take_count = 1..next_uid

\* Two take_commands calls returned one command each, and a third command is
\* pending.
C7_Witness ==
    /\ next_uid = 3
    /\ take_count = <<1, 1, 0>>
    /\ UidsOf(taken) = {2}
    /\ UidsOf(pending_commands) = {3}

\* C8: should_execute() is true exactly when the time since the last
\* take_commands (or since construction) is at least the batch window or
\* pending_count() is at least max_batch_size, and the value a call returns
\* is that one.
C8_ShouldExecute ==
    LET due == \/ now - last_take_time >= batch_window
               \/ pending_count >= max_batch_size
    IN /\ should_execute <=> due
       /\ last_op = "should_execute" => (last_should <=> due)
       /\ (/\ last_op \in {"new", "take_commands"}
           /\ pending_count < max_batch_size
           /\ batch_window > 0) => ~should_execute

\* should_execute() returned true for the batch size alone, within the
\* window, after a clear and a take_commands at a later time.
C8_Witness ==
    /\ last_op = "should_execute"
    /\ last_should
    /\ now - last_take_time < batch_window
    /\ pending_count >= max_batch_size
    /\ last_take_time > 0
    /\ cleared # {}

(***************************************************************************)
(* Specification of the ModbusPdu.                                         *)
(***************************************************************************)
InitPdu ==
    /\ ChunkInit
    /\ BatcherInitWith(DEFAULT_BATCH_WINDOW_MS, DEFAULT_MAX_BATCH_SIZE)
    /\ PduInit
    /\ PureInit

PduPush ==
    /\ \E b \in PushBytes : Push(b)
    /\ UNCHANGED <<chunkVars, batcherVars, pureVars>>

PduPushU16 ==
    /\ \E v \in PushWords : PushU16(v)
    /\ UNCHANGED <<chunkVars, batcherVars, pureVars>>

PduExtend ==
    /\ \E n \in SliceLens : Extend(SliceOf(n))
    /\ UNCHANGED <<chunkVars, batcherVars, pureVars>>

PduFromSlice ==
    /\ \E n \in SliceLens : FromSlice(SliceOf(n))
    /\ UNCHANGED <<chunkVars, batcherVars, pureVars>>

PduClear == Clear /\ UNCHANGED <<chunkVars, batcherVars, pureVars>>

PduAsMutSlice ==
    /\ \E index \in MutIndices, byte \in MutBytes : AsMutSlice(index, byte)
    /\ UNCHANGED <<chunkVars, batcherVars, pureVars>>

NextPdu ==
    \/ PduPush
    \/ PduPushU16
    \/ PduExtend
    \/ PduFromSlice
    \/ PduClear
    \/ PduAsMutSlice

SpecPdu == InitPdu /\ [][NextPdu]_vars

(***************************************************************************)
(* Claims about the ModbusPdu.                                             *)
(***************************************************************************)
\* C9: the length of a PDU never exceeds MAX_PDU_SIZE (253), and as_slice()
\* is exactly the bytes appended since the PDU was created or cleared: as
\* long as the caller has stored nothing through as_mut_slice the two are
\* equal, and after such stores they still agree in length and at every
\* position that was not stored to.
C9_LengthAndPrefix ==
    /\ len <= MAX_PDU_SIZE
    /\ len >= 0
    /\ Len(as_slice(Pdu)) = len
    /\ Len(appended) = len
    /\ overwritten = {} => as_slice(Pdu) = appended
    /\ \A i \in 1..len : (i - 1) \notin overwritten => as_slice(Pdu)[i] = appended[i]

\* A full PDU on which a further push has failed.
C9_Witness ==
    /\ len = MAX_PDU_SIZE
    /\ pdu_last.op = "push"
    /\ ~pdu_last.ok
    /\ appended # <<>>
    /\ overwritten = {}

\* C10: a push on a PDU of length 253, and an extend with
\* length + bytes.len() > 253, return an error and leave the length and the
\* valid content of the PDU as they were.
C10_FullRejected ==
    (\/ pdu_last.op = "push" /\ pdu_last.len = MAX_PDU_SIZE
     \/ pdu_last.op = "extend" /\ pdu_last.len + pdu_last.arg_len > MAX_PDU_SIZE) =>
        /\ ~pdu_last.ok
        /\ len = pdu_last.len
        /\ as_slice(Pdu) = pdu_last.slice

\* An extend of 253 bytes refused on a PDU that holds 2 bytes.
C10_Witness ==
    /\ pdu_last.op = "extend"
    /\ pdu_last.len = 2
    /\ pdu_last.arg_len = MAX_PDU_SIZE
    /\ ~pdu_last.ok
    /\ len = 2

\* A push refused on a PDU that holds 253 bytes.
C10_WitnessPush ==
    /\ pdu_last.op = "push"
    /\ pdu_last.len = MAX_PDU_SIZE
    /\ ~pdu_last.ok

\* C11: when push_u16 returns an error the PDU is as it was before the call,
\* length and content, whatever the starting length (252 included, where only
\* the high byte fits).
C11_PushU16NoPartialState ==
    (pdu_last.op = "push_u16" /\ ~pdu_last.ok) =>
        /\ len = pdu_last.len
        /\ as_slice(Pdu) = pdu_last.slice

(***************************************************************************)
(* Specification of one call of are_strictly_consecutive: the slice is     *)
(* drawn in the initial state, the action is the call.                     *)
(***************************************************************************)
\* The test helper create_test_command of batcher.rs.
create_test_command(point_id, slave_id, function_code, register_address, data_type) ==
    [point_id |-> point_id, value |-> 100, slave_id |-> slave_id,
     function_code |-> function_code, register_address |-> register_address,
     data_type |-> data_type, byte_order |-> "BigEndian"]

\* The commands of the slices: a coil, a 16-bit and a 32-bit type (the latter
\* in mixed case), at low addresses and at the top of the address space.
ConsecutiveAddresses == {100, 101, 103, 65534, 65535}
ConsecutiveTypes == {s_bool, s_uint16, <<"F", "l", "o", "a", "t", "3", "2">>}
ConsecutiveCommands ==
    {create_test_command(1, 1, 6, a, t) : a \in ConsecutiveAddresses, t \in ConsecutiveTypes}
CommandSlices == UNION {[1..n -> ConsecutiveCommands] : n \in 0..MaxCommands}

InitConsecutive ==
    /\ ChunkInit
    /\ BatcherInitWith(DEFAULT_BATCH_WINDOW_MS, DEFAULT_MAX_BATCH_SIZE)
    /\ PduInit
    /\ \E commands \in CommandSlices :
           fn_args = [fn |-> "are_strictly_consecutive", commands |-> commands]
    /\ fn_ret = NotCalled

\* CommandBatcher::are_strictly_consecutive(&commands), in a build with or
\* without overflow checks.  The slice is borrowed immutably: it is the same
\* after the call.
AreStrictlyConsecutive ==
    /\ fn_args.fn = "are_strictly_consecutive"
    /\ fn_ret.kind = "none"
    /\ \E overflow_checks \in BOOLEAN :
           fn_ret' = are_strictly_consecutive(fn_args.commands, overflow_checks)
                     @@ [overflow_checks |-> overflow_checks,
                         commands_after |-> fn_args.commands]
    /\ UNCHANGED <<fn_args, chunkVars, batcherVars, pduVars>>

NextConsecutive == AreStrictlyConsecutive

SpecConsecutive == InitConsecutive /\ [][NextConsecutive]_vars

(***************************************************************************)
(* Claims about are_strictly_consecutive.                                  *)
(***************************************************************************)
RECURSIVE SumSpans(_, _, _)
\* The registers spanned by the first k commands of the visiting order ix.
SumSpans(cs, ix, k) ==
    IF k = 0 THEN 0
    ELSE SumSpans(cs, ix, k - 1) + registers_for_type(cs[ix[k]].data_type)

\* The commands in ascending address order, equal addresses in slice order.
AscendingOrder(cs) ==
    CHOOSE ix \in [1..Len(cs) -> 1..Len(cs)] :
        /\ \A i, j \in 1..Len(cs) : i # j => ix[i] # ix[j]
        /\ \A i, j \in 1..Len(cs) : i < j =>
              \/ cs[ix[i]].register_address < cs[ix[j]].register_address
              \/ /\ cs[ix[i]].register_address = cs[ix[j]].register_address
                 /\ ix[i] < ix[j]

\* Each command starts where the commands visited before it end.
EachAtRunningSum(cs) ==
    LET ix == AscendingOrder(cs)
    IN \A k \in 1..Len(cs) :
          cs[ix[k]].register_address =
              cs[ix[1]].register_address + SumSpans(cs, ix, k - 1)

RangeEnd(c) == c.register_address + registers_for_type(c.data_type)

\* Two commands whose register ranges share a register.
Overlap(cs) ==
    \E i, j \in 1..Len(cs) :
        /\ i # j
        /\ cs[i].register_address < RangeEnd(cs[j])
        /\ cs[j].register_address < RangeEnd(cs[i])

\* A command that starts past the end of every command at or below it.
Gap(cs) ==
    \E i \in 1..Len(cs) :
        /\ \E j \in 1..Len(cs) : cs[j].register_address < cs[i].register_address
        /\ \A j \in 1..Len(cs) :
              cs[j].register_address < cs[i].register_address =>
                  RangeEnd(cs[j]) < cs[i].register_address

\* C12: are_strictly_consecutive returns true if and only if there are at
\* least 2 commands and, in ascending address order, each command's address is
\* the lowest address plus the registers spanned by the commands before it;
\* a gap or an overlap between the register ranges gives false.
C12_ConsecutiveIff ==
    (fn_args.fn = "are_strictly_consecutive" /\ fn_ret.kind # "none") =>
        LET cs == fn_args.commands
        IN /\ fn_ret.kind = "returned"
           /\ fn_ret.value = (Len(cs) >= 2 /\ EachAtRunningSum(cs))
           /\ (Gap(cs) \/ Overlap(cs)) => fn_ret.value = FALSE

\* The slice cs with its commands in the order p.
Permuted(cs, p) == [i \in 1..Len(cs) |-> cs[p[i]]]
IndexOrders(n) == {p \in [1..n -> 1..n] : \A i, j \in 1..n : i # j => p[i] # p[j]}

\* C13: are_strictly_consecutive gives the same result for every permutation
\* of the same commands, and leaves the caller's slice as it was.
C13_PermutationInvariant ==
    (fn_args.fn = "are_strictly_consecutive" /\ fn_ret.kind # "none") =>
        /\ \A p \in IndexOrders(Len(fn_args.commands)) :
              LET r == are_strictly_consecutive(Permuted(fn_args.commands, p),
                                                fn_ret.overflow_checks)
              IN r.kind = fn_ret.kind /\ r.value = fn_ret.value
        /\ fn_ret.commands_after = fn_args.commands

\* C14: are_strictly_consecutive returns a boolean for every slice, without
\* the running expected address leaving the 16-bit range and without aborting.
C14_NoOverflowNoAbort ==
    (fn_args.fn = "are_strictly_consecutive" /\ fn_ret.kind # "none") =>
        /\ fn_ret.kind = "returned"
        /\ fn_ret.value \in BOOLEAN
        /\ ~fn_ret.overflowed

(***************************************************************************)
(* Specification of one call of a PDU build function: the function and its *)
(* arguments are drawn in the initial state, the action is the call.       *)
(***************************************************************************)
BuildFunctionCodes == {0, 1, 2, 3, 4, 5}
BuildAddresses == {0, 256, 65535}
BuildQuantities == {0, 1, 125, 126, 2000, 2001, 65535}
CoilCounts == {0, 1, 3, 8, 9, 1968, 1969, 1976, 1977}
RegisterCounts == {0, 1, 2, 123, 124, 125}
\* n coils true, false, true, ...; n registers 0x1234, 0x5678, 0x9ABC, ...
CoilsOf(n) == [i \in 1..n |-> i % 2 = 1]
RegistersOf(n) == [i \in 1..n |-> (4660 + 17476 * (i - 1)) % (U16_MAX + 1)]

ReadRequestArgs ==
    {[fn |-> "build_read_request", fc |-> f, start_address |-> a, quantity |-> q] :
        f \in BuildFunctionCodes, a \in BuildAddresses, q \in BuildQuantities}
WriteCoilsArgs ==
    {[fn |-> name, address |-> a, values |-> CoilsOf(n)] :
        name \in {"build_write_multiple_coils", "build_fc15_pdu"},
        a \in BuildAddresses, n \in CoilCounts}
WriteRegistersArgs ==
    {[fn |-> name, address |-> a, values |-> RegistersOf(n)] :
        name \in {"build_write_multiple_registers", "build_fc16_pdu"},
        a \in BuildAddresses, n \in RegisterCounts}

InitBuilders ==
    /\ ChunkInit
    /\ BatcherInitWith(DEFAULT_BATCH_WINDOW_MS, DEFAULT_MAX_BATCH_SIZE)
    /\ PduInit
    /\ \/ fn_args \in ReadRequestArgs
       \/ fn_args \in WriteCoilsArgs
       \/ fn_args \in WriteRegistersArgs
    /\ fn_ret = NotCalled

\* The call named by fn_args, once.
BuildCall(name, returned) ==
    /\ fn_args.fn = name
    /\ fn_ret.kind = "none"
    /\ fn_ret' = returned @@ [kind |-> "returned"]
    /\ UNCHANGED fn_args

BuildReadRequest ==
    /\ BuildCall("build_read_request",
                 build_read_request(fn_args.fc, fn_args.start_address, fn_args.quantity))
    /\ UNCHANGED <<chunkVars, batcherVars, pduVars>>

BuildWriteMultipleCoils ==
    /\ BuildCall("build_write_multiple_coils",
                 build_write_multiple_coils(fn_args.address, fn_args.values))
    /\ UNCHANGED <<chunkVars, batcherVars, pduVars>>

BuildWriteMultipleRegisters ==
    /\ BuildCall("build_write_multiple_registers",
                 build_write_multiple_registers(fn_args.address, fn_args.values))
    /\ UNCHANGED <<chunkVars, batcherVars, pduVars>>

BuildFc15Pdu ==
    /\ BuildCall("build_fc15_pdu", build_fc15_pdu(fn_args.address, fn_args.values))
    /\ UNCHANGED <<chunkVars, batcherVars, pduVars>>

BuildFc16Pdu ==
    /\ BuildCall("build_fc16_pdu", build_fc16_pdu(fn_args.address, fn_args.values))
    /\ UNCHANGED <<chunkVars, batcherVars, pduVars>>

NextBuilders ==
    \/ BuildReadRequest
    \/ BuildWriteMultipleCoils
    \/ BuildWriteMultipleRegisters
    \/ BuildFc15Pdu
    \/ BuildFc16Pdu

SpecBuilders == InitBuilders /\ [][NextBuilders]_vars

(***************************************************************************)
(* Claims about the PDU builders.                                          *)
(***************************************************************************)
\* C15: build_read_request fails when the quantity is above the protocol
\* ceiling of its function code: above 125 for function codes 3 and 4, above
\* 2000 for function codes 1 and 2.
C15_ReadCeilingRejected ==
    (/\ fn_args.fn = "build_read_request"
     /\ fn_ret.kind = "returned"
     /\ \/ fn_args.fc \in {3, 4} /\ fn_args.quantity > 125
        \/ fn_args.fc \in {1, 2} /\ fn_args.quantity > 2000) =>
        ~fn_ret.ok

\* C16: each of the four write-multiple builders fails when given more than
\* 1968 coils or more than 123 registers.
C16_WriteCeilingRejected ==
    /\ (/\ fn_args.fn \in {"build_write_multiple_coils", "build_fc15_pdu"}
        /\ fn_ret.kind = "returned"
        /\ Len(fn_args.values) > 1968) => ~fn_ret.ok
    /\ (/\ fn_args.fn \in {"build_write_multiple_registers", "build_fc16_pdu"}
        /\ fn_ret.kind = "returned"
        /\ Len(fn_args.values) > 123) => ~fn_ret.ok

(***************************************************************************)
(* Specification of the byte order conversions: a conversion, its input x  *)
(* and the byte order are drawn in the initial state; the first step       *)
(* applies the conversion (giving y), the second the opposite conversion   *)
(* (giving z).                                                             *)
(***************************************************************************)
ByteValues == {0, 18, 128, 255}
RegisterValues == {0, 255, 4660, 22136, 32768, 65535}
WideRegisterValues == {0, 4660, 22136, 39612, 57072}
WideByteValues == {0, 255}
I32Values == {0, 1, -1, 305419896, -305419896, 2147483647, -2147483647 - 1}

\* The inputs of each conversion.
ConversionInputs(name) ==
    CASE name = "regs_to_bytes_4" -> [1..2 -> RegisterValues]
      [] name = "bytes_4_to_regs" -> [1..4 -> ByteValues]
      [] name = "regs_to_bytes_8" -> [1..4 -> WideRegisterValues]
      [] name = "bytes_8_to_regs" -> [1..8 -> WideByteValues] \cup {<<18, 52, 86, 120, 154, 188, 222, 240>>}
      [] name = "u32_to_regs" -> [1..2 -> RegisterValues]
      [] name = "i32_to_regs" -> I32Values
      [] name = "u64_to_regs" -> [1..4 -> WideRegisterValues]
      [] name = "i64_to_regs" -> [1..4 -> WideRegisterValues]

Conversions == {"regs_to_bytes_4", "bytes_4_to_regs", "regs_to_bytes_8", "bytes_8_to_regs",
                "u32_to_regs", "i32_to_regs", "u64_to_regs", "i64_to_regs"}

InitBytes ==
    /\ ChunkInit
    /\ BatcherInitWith(DEFAULT_BATCH_WINDOW_MS, DEFAULT_MAX_BATCH_SIZE)
    /\ PduInit
    /\ \E name \in Conversions, order \in ByteOrders :
           \E x \in ConversionInputs(name) :
               fn_args = [fn |-> name, order |-> order, x |-> x]
    /\ fn_ret = NotCalled

\* f applied as the conversion under study (to x), or as the opposite
\* conversion (to y).
Convert(name, opposite, f(_)) ==
    /\ \/ /\ fn_args.fn = name
          /\ fn_ret.kind = "none"
          /\ fn_ret' = [kind |-> "first", y |-> f(fn_args.x)]
       \/ /\ fn_args.fn = opposite
          /\ fn_ret.kind = "first"
          /\ fn_ret' = [kind |-> "returned", y |-> fn_ret.y, z |-> f(fn_ret.y)]
    /\ UNCHANGED fn_args

RegsToBytes4 ==
    /\ Convert("regs_to_bytes_4", "bytes_4_to_regs",
               LAMBDA regs : regs_to_bytes_4(regs, fn_args.order))
    /\ UNCHANGED <<chunkVars, batcherVars, pduVars>>

Bytes4ToRegs ==
    /\ Convert("bytes_4_to_regs", "regs_to_bytes_4",
               LAMBDA bytes : bytes_4_to_regs(bytes, fn_args.order))
    /\ UNCHANGED <<chunkVars, batcherVars, pduVars>>

RegsToBytes8 ==
    /\ Convert("regs_to_bytes_8", "bytes_8_to_regs",
               LAMBDA regs : regs_to_bytes_8(regs, fn_args.order))
    /\ UNCHANGED <<chunkVars, batcherVars, pduVars>>

Bytes8ToRegs ==
    /\ Convert("bytes_8_to_regs", "regs_to_bytes_8",
               LAMBDA bytes : bytes_8_to_regs(bytes, fn_args.order))
    /\ UNCHANGED <<chunkVars, batcherVars, pduVars>>

\* u32_to_regs, i32_to_regs, u64_to_regs, i64_to_regs on the value x
ValueToRegs ==
    /\ fn_args.fn \in {"u32_to_regs", "i32_to_regs", "u64_to_regs", "i64_to_regs"}
    /\ fn_ret.kind = "none"
    /\ fn_ret' = [kind |-> "first",
                  y |-> CASE fn_args.fn = "u32_to_regs" -> u32_to_regs(fn_args.x, fn_args.order)
                          [] fn_args.fn = "i32_to_regs" -> i32_to_regs(fn_args.x, fn_args.order)
                          [] fn_args.fn = "u64_to_regs" -> u64_to_regs(fn_args.x, fn_args.order)
                          [] fn_args.fn = "i64_to_regs" -> i64_to_regs(fn_args.x, fn_args.order)]
    /\ UNCHANGED <<fn_args, chunkVars, batcherVars, pduVars>>

\* regs_to_u32, regs_to_i32, regs_to_u64, regs_to_i64 on the registers y
RegsToValue ==
    /\ fn_args.fn \in {"u32_to_regs", "i32_to_regs", "u64_to_regs", "i64_to_regs"}
    /\ fn_ret.kind = "first"
    /\ fn_ret' = [kind |-> "returned", y |-> fn_ret.y,
                  z |-> CASE fn_args.fn = "u32_to_regs" -> regs_to_u32(fn_ret.y, fn_args.order)
                          [] fn_args.fn = "i32_to_regs" -> regs_to_i32(fn_ret.y, fn_args.order)
                          [] fn_args.fn = "u64_to_regs" -> regs_to_u64(fn_ret.y, fn_args.order)
                          [] fn_args.fn = "i64_to_regs" -> regs_to_i64(fn_ret.y, fn_args.order)]
    /\ UNCHANGED <<fn_args, chunkVars, batcherVars, pduVars>>

NextBytes ==
    \/ RegsToBytes4
    \/ Bytes4ToRegs
    \/ RegsToBytes8
    \/ Bytes8ToRegs
    \/ ValueToRegs
    \/ RegsToValue

SpecBytes == InitBytes /\ [][NextBytes]_vars

(***************************************************************************)
(* Claims about the byte order conversions.                                *)
(***************************************************************************)
FourOrders == {"BigEndian", "LittleEndian", "BigEndianSwap", "LittleEndianSwap"}

\* C17: for each of the four byte orders, bytes_4_to_regs / bytes_8_to_regs
\* undo regs_to_bytes_4 / regs_to_bytes_8 and the other way round, and a
\* u32, i32, u64 or i64 encoded to registers decodes to the same value.
C17_RoundTrip ==
    (fn_args.fn \in Conversions /\ fn_args.order \in FourOrders /\ fn_ret.kind = "returned") =>
        fn_ret.z = fn_args.x

\* 0x12345678 encoded word-and-byte reversed as [0x3412, 0x7856] and decoded back.
C17_Witness ==
    /\ fn_args.fn = "u32_to_regs"
    /\ fn_args.order = "LittleEndianSwap"
    /\ fn_args.x = <<4660, 22136>>
    /\ fn_ret.kind = "returned"
    /\ fn_ret.y = <<13330, 30806>>
    /\ fn_ret.z = <<4660, 22136>>

\* The positions, among the registers' big-endian bytes A B C D (E F G H),
\* of the bytes each order returns.
Layout4 ==
    [o \in FourOrders |->
        CASE o = "BigEndian" -> <<1, 2, 3, 4>>
          [] o = "LittleEndian" -> <<4, 3, 2, 1>>
          [] o = "BigEndianSwap" -> <<3, 4, 1, 2>>
          [] o = "LittleEndianSwap" -> <<2, 1, 4, 3>>]
Layout8 ==
    [o \in FourOrders |->
        CASE o = "BigEndian" -> <<1, 2, 3, 4, 5, 6, 7, 8>>
          [] o = "LittleEndian" -> <<8, 7, 6, 5, 4, 3, 2, 1>>
          [] o = "BigEndianSwap" -> <<7, 8, 5, 6, 3, 4, 1, 2>>
          [] o = "LittleEndianSwap" -> <<2, 1, 4, 3, 6, 5, 8, 7>>]
\* The registers' bytes, each register high byte first.
BigEndianBytes(regs) ==
    [i \in 1..(2 * Len(regs)) |->
        IF i % 2 = 1 THEN regs[(i + 1) \div 2] \div 256 ELSE regs[i \div 2] % 256]

\* C18: regs_to_bytes_4 / regs_to_bytes_8 return ABCD / ABCDEFGH for
\* BigEndian, DCBA / HGFEDCBA for LittleEndian, CDAB / GHEFCDAB for
\* BigEndianSwap and BADC / BADCFEHG for LittleEndianSwap.
C18_ByteLayout ==
    (/\ fn_args.fn \in {"regs_to_bytes_4", "regs_to_bytes_8"}
     /\ fn_args.order \in FourOrders
     /\ fn_ret.kind \in {"first", "returned"}) =>
        LET be == BigEndianBytes(fn_args.x)
            layout == IF fn_args.fn = "regs_to_bytes_4"
                      THEN Layout4[fn_args.order] ELSE Layout8[fn_args.order]
        IN fn_ret.y = [i \in 1..Len(layout) |-> be[layout[i]]]

\* [0x1234, 0x5678, 0x9ABC, 0xDEF0] laid out GHEFCDAB.
C18_Witness ==
    /\ fn_args.fn = "regs_to_bytes_8"
    /\ fn_args.order = "BigEndianSwap"
    /\ fn_args.x = <<4660, 22136, 39612, 57072>>
    /\ fn_ret.kind = "first"
    /\ fn_ret.y = <<222, 240, 154, 188, 86, 120, 18, 52>>

(***************************************************************************)
(* Specification of one call of a value codec function: the function and   *)
(* its arguments are drawn in the initial state, the action is the call.   *)
(***************************************************************************)
\* The aliases of codec.rs, some tags in other letter cases, and tags that
\* are no alias.
KnownAliases ==
    {s_bool, s_boolean, s_coil, s_uint16, s_u16, s_word, s_int16, s_i16, s_short,
     s_uint32, s_u32, s_dword, s_int32, s_i32, s_long, s_float32, s_f32, s_float, s_real,
     s_uint64, s_u64, s_qword, s_int64, s_i64, s_longlong, s_float64, s_f64, s_double,
     s_lreal}
MixedCaseTags ==
    {<<"B", "o", "o", "l">>, <<"U", "I", "N", "T", "1", "6">>,
     <<"F", "l", "o", "a", "t", "3", "2">>, <<"L", "R", "E", "A", "L">>}
UnknownTags ==
    {<<>>, <<"s", "t", "r", "i", "n", "g">>, <<"u", "i", "n", "t", "8">>,
     <<"U", "I", "N", "T", "1", "2", "8">>}
TypeTags == KnownAliases \cup MixedCaseTags \cup UnknownTags

DecodeRegisterValues == {4, 65535}
DecodeBitPositions == {0, 2, 15, 16, 255}
DecodeOrders == {"BigEndian", "LittleEndianSwap"}
RegisterSlices == UNION {[1..n -> DecodeRegisterValues] : n \in 0..MaxRegisters}

DecodeArgs ==
    {[fn |-> "decode_register_value", registers |-> r, data_type |-> t,
      bit_position |-> b, byte_order |-> o] :
        r \in RegisterSlices, t \in TypeTags, b \in DecodeBitPositions, o \in DecodeOrders}

EncodeArgs ==
    {[fn |-> "encode_f64_as_type", value |-> v, data_type |-> t, byte_order |-> o] :
        v \in F64Values, t \in TypeTags, o \in DecodeOrders}

ClampArgs ==
    {[fn |-> "clamp_to_data_type", value |-> v, data_type |-> t] :
        v \in F64Values, t \in TypeTags}

\* The ModbusValue variants and the payloads of each in the model.
Variants == {"Bool", "U16", "I16", "U32", "I32", "F32", "U64", "I64", "F64"}
PayloadsOf(variant) ==
    IF variant = "Bool" THEN BOOLEAN
    ELSE IF variant = "U16" THEN {0, 4660, 65535}
    ELSE IF variant = "I16" THEN {-32768, -1, 0, 4660}
    ELSE IF variant = "U32" THEN {<<0, 0>>, <<4660, 22136>>, <<65535, 65535>>}
    ELSE IF variant = "I32" THEN {-2147483647 - 1, -1, 0, 305419896}
    ELSE IF variant = "F32" THEN {F32Bits[v] : v \in F64Values}
    ELSE IF variant = "F64" THEN {F64Bits[v] : v \in F64Values}
    ELSE {<<0, 0, 0, 0>>, <<4660, 22136, 39612, 57072>>, <<65535, 65535, 65535, 65535>>}

InitCodec ==
    /\ ChunkInit
    /\ BatcherInitWith(DEFAULT_BATCH_WINDOW_MS, DEFAULT_MAX_BATCH_SIZE)
    /\ PduInit
    /\ \/ fn_args \in DecodeArgs
       \/ fn_args \in EncodeArgs
       \/ fn_args \in ClampArgs
       \/ \E variant \in Variants, o \in ByteOrders :
              \E v \in PayloadsOf(variant) :
                  fn_args = [fn |-> "encode_value", value |-> ModbusValue(variant, v),
                             byte_order |-> o]
    /\ fn_ret = NotCalled

DecodeRegisterValue ==
    /\ fn_args.fn = "decode_register_value"
    /\ fn_ret.kind = "none"
    /\ fn_ret' = decode_register_value(fn_args.registers, fn_args.data_type,
                                       fn_args.bit_position, fn_args.byte_order)
                 @@ [kind |-> "returned"]
    /\ UNCHANGED <<fn_args, chunkVars, batcherVars, pduVars>>

EncodeF64AsType ==
    /\ fn_args.fn = "encode_f64_as_type"
    /\ fn_ret.kind = "none"
    /\ fn_ret' = encode_f64_as_type(fn_args.value, fn_args.data_type, fn_args.byte_order)
                 @@ [kind |-> "returned"]
    /\ UNCHANGED <<fn_args, chunkVars, batcherVars, pduVars>>

ClampToDataType ==
    /\ fn_args.fn = "clamp_to_data_type"
    /\ fn_ret.kind = "none"
    /\ fn_ret' = [kind |-> "returned",
                  value |-> clamp_to_data_type(fn_args.value, fn_args.data_type)]
    /\ UNCHANGED <<fn_args, chunkVars, batcherVars, pduVars>>

\* encode_value, with what register_count and registers_for_type give for
\* the same value.
EncodeValue ==
    /\ fn_args.fn = "encode_value"
    /\ fn_ret.kind = "none"
    /\ fn_ret' = encode_value(fn_args.value, fn_args.byte_order)
                 @@ [kind |-> "returned",
                     register_count |-> register_count(fn_args.value),
                     registers_for_type |-> registers_for_type(type_name(fn_args.value))]
    /\ UNCHANGED <<fn_args, chunkVars, batcherVars, pduVars>>

NextCodec ==
    \/ DecodeRegisterValue
    \/ EncodeF64AsType
    \/ ClampToDataType
    \/ EncodeValue

SpecCodec == InitCodec /\ [][NextCodec]_vars

(***************************************************************************)
(* Claims about the value codec.                                           *)
(***************************************************************************)
BoolAliases == {s_bool, s_boolean, s_coil}
\* The registers a type needs: 1 for bool and the 16-bit types, 2 for the
\* 32-bit types, 4 for the 64-bit types.
RegistersNeeded(t) ==
    IF t \in BoolAliases \cup {s_uint16, s_u16, s_word, s_int16, s_i16, s_short} THEN 1
    ELSE IF t \in {s_uint32, s_u32, s_dword, s_int32, s_i32, s_long,
                   s_float32, s_f32, s_float, s_real} THEN 2
    ELSE 4

\* The three failure cases of a decode_register_value call.
TooFewRegisters(a) ==
    /\ to_lowercase(a.data_type) \in KnownAliases
    /\ Len(a.registers) < RegistersNeeded(to_lowercase(a.data_type))
BadBitPosition(a) ==
    /\ to_lowercase(a.data_type) \in BoolAliases
    /\ a.bit_position > 15
UnknownTag(a) == to_lowercase(a.data_type) \notin KnownAliases

DecodeReturned == fn_args.fn = "decode_register_value" /\ fn_ret.kind = "returned"

\* C19: decode_register_value fails with InsufficientRegisters when fewer
\* registers are supplied than the type needs, with InvalidBitPosition when
\* the type is boolean and bit_position > 15, with UnsupportedType when the
\* tag, compared without regard to case, is no known alias; in every other
\* case it succeeds.
C19_DecodeErrorKinds ==
    DecodeReturned =>
        /\ TooFewRegisters(fn_args) =>
              (~fn_ret.ok /\ fn_ret.err.kind = "InsufficientRegisters")
        /\ (BadBitPosition(fn_args) /\ ~TooFewRegisters(fn_args)) =>
              (~fn_ret.ok /\ fn_ret.err.kind = "InvalidBitPosition")
        /\ UnknownTag(fn_args) =>
              (~fn_ret.ok /\ fn_ret.err.kind = "UnsupportedType")
        /\ ~(TooFewRegisters(fn_args) \/ BadBitPosition(fn_args) \/ UnknownTag(fn_args)) =>
              fn_ret.ok

EncodeReturned == fn_args.fn = "encode_f64_as_type" /\ fn_ret.kind = "returned"

\* C20: encode_f64_as_type called with a type tag that is no known alias
\* does not return an error.
C20_EncodeUnknownLenient ==
    (EncodeReturned /\ UnknownTag(fn_args)) => fn_ret.ok

(***************************************************************************)
(* Specification of one call of parse_read_response: the PDU, the expected *)
(* function code and the expected count are drawn in the initial state.    *)
(***************************************************************************)
MaxPayloadBytes == 4
ParseFirstBytes == {1, 2, 3, 4, 131}
ParseByteCounts == {0, 1, 2, 3, 4, 5, 255}
ParsePayloadBytes == {7, 200}
ParseFunctionCodes == {1, 2, 3, 4, 5}
ParseExpectedCounts == {0, 2, 2000}
ParsePayloads == UNION {[1..n -> ParsePayloadBytes] : n \in 0..MaxPayloadBytes}
\* The empty PDU, the PDUs of one byte, and the PDUs of a first byte, a
\* byte count and a payload.
ParsePdus ==
    {<<>>} \cup {<<b>> : b \in ParseFirstBytes}
    \cup {<<b, c>> \o d : b \in ParseFirstBytes, c \in ParseByteCounts, d \in ParsePayloads}

InitParse ==
    /\ ChunkInit
    /\ BatcherInitWith(DEFAULT_BATCH_WINDOW_MS, DEFAULT_MAX_BATCH_SIZE)
    /\ PduInit
    /\ \E bytes \in ParsePdus, f \in ParseFunctionCodes, n \in ParseExpectedCounts :
           fn_args = [fn |-> "parse_read_response", pdu |-> bytes,
                      function_code |-> f, expected_count |-> n]
    /\ fn_ret = NotCalled

ParseReadResponse ==
    /\ fn_args.fn = "parse_read_response"
    /\ fn_ret.kind = "none"
    /\ fn_ret' = parse_read_response(from_slice(fn_args.pdu).pdu, fn_args.function_code,
                                     fn_args.expected_count)
                 @@ [kind |-> "returned"]
    /\ UNCHANGED <<fn_args, chunkVars, batcherVars, pduVars>>

NextParse == ParseReadResponse

SpecParse == InitParse /\ [][NextParse]_vars

ParseReturned == fn_args.fn = "parse_read_response" /\ fn_ret.kind = "returned"

\* C21: parse_read_response returns a successful empty result for every PDU
\* of length 0 or 1, whatever the expected function code and the single
\* byte; for every PDU of length >= 2 whose first byte differs from the
\* expected function code it returns a function code mismatch error.
C21_ShortOrMismatch ==
    ParseReturned =>
        /\ Len(fn_args.pdu) < 2 => (fn_ret.ok /\ fn_ret.value = <<>>)
        /\ (Len(fn_args.pdu) >= 2 /\ fn_args.pdu[1] # fn_args.function_code) =>
              /\ ~fn_ret.ok
              /\ fn_ret.err.text = "Function code mismatch: expected {}, got {}"
              /\ fn_ret.err.args = <<fn_args.function_code, fn_args.pdu[1]>>

\* A one-byte PDU whose byte is not the expected code parsed to nothing.
C21_Witness ==
    /\ ParseReturned
    /\ fn_args.pdu = <<131>>
    /\ fn_args.function_code = 3
    /\ fn_ret.ok
    /\ fn_ret.value = <<>>

\* C27: for a PDU of length n >= 2 whose first byte is the expected code c,
\* with m = min(pdu[1], n - 2), the result has m elements pdu[2+i] when c is
\* 1 or 2, and floor(m/2) elements pdu[2+2i]*256 + pdu[3+2i] when c is 3 or
\* 4; expected_count plays no part.
C27_ParsedContents ==
    (/\ ParseReturned
     /\ Len(fn_args.pdu) >= 2
     /\ fn_args.pdu[1] = fn_args.function_code
     /\ fn_args.function_code \in 1..4) =>
        LET b == fn_args.pdu
            m == Min(b[2], Len(b) - 2)
        IN /\ fn_ret.ok
           /\ fn_args.function_code \in {1, 2} =>
                 fn_ret.value = [i \in 1..m |-> b[2 + i]]
           /\ fn_args.function_code \in {3, 4} =>
                 fn_ret.value = [i \in 1..(m \div 2) |-> b[1 + 2 * i] * 256 + b[2 + 2 * i]]

\* A register response announcing 5 bytes and carrying 3: one register.
C27_Witness ==
    /\ ParseReturned
    /\ fn_args.pdu = <<3, 5, 7, 200, 7>>
    /\ fn_args.function_code = 3
    /\ fn_args.expected_count = 2000
    /\ fn_ret.ok
    /\ fn_ret.value = <<1992>>

(***************************************************************************)
(* Specification of one call of a single-register helper.                  *)
(***************************************************************************)
SingleRegisters == {0, 1, 255, 256, 4660, 32768, 43981, 65535}
SingleHelpers == {"reg_to_bytes_2", "reg_to_u16", "reg_to_i16"}

InitSingle ==
    /\ ChunkInit
    /\ BatcherInitWith(DEFAULT_BATCH_WINDOW_MS, DEFAULT_MAX_BATCH_SIZE)
    /\ PduInit
    /\ \E name \in SingleHelpers, reg \in SingleRegisters, order \in ByteOrders :
           fn_args = [fn |-> name, reg |-> reg, order |-> order]
    /\ fn_ret = NotCalled

RegToBytes2 ==
    /\ fn_args.fn = "reg_to_bytes_2"
    /\ fn_ret.kind = "none"
    /\ fn_ret' = [kind |-> "returned", y |-> reg_to_bytes_2(fn_args.reg, fn_args.order)]
    /\ UNCHANGED <<fn_args, chunkVars, batcherVars, pduVars>>

RegToU16 ==
    /\ fn_args.fn = "reg_to_u16"
    /\ fn_ret.kind = "none"
    /\ fn_ret' = [kind |-> "returned", y |-> reg_to_u16(fn_args.reg, fn_args.order)]
    /\ UNCHANGED <<fn_args, chunkVars, batcherVars, pduVars>>

RegToI16 ==
    /\ fn_args.fn = "reg_to_i16"
    /\ fn_ret.kind = "none"
    /\ fn_ret' = [kind |-> "returned", y |-> reg_to_i16(fn_args.reg, fn_args.order)]
    /\ UNCHANGED <<fn_args, chunkVars, batcherVars, pduVars>>

NextSingle ==
    \/ RegToBytes2
    \/ RegToU16
    \/ RegToI16

SpecSingle == InitSingle /\ [][NextSingle]_vars

\* The register with its bytes exchanged for LittleEndian16, and as it is for
\* every other order.
SwappedForLittleEndian16(reg, order) ==
    IF order = "LittleEndian16" THEN (reg % 256) * 256 + (reg \div 256) ELSE reg

\* C22: reg_to_bytes_2, reg_to_u16 and reg_to_i16 exchange the bytes of the
\* register only for LittleEndian16 and give the big-endian result for every
\* other order, so that the three agree for every order.
C22_SingleRegisterHelpers ==
    (fn_args.fn \in SingleHelpers /\ fn_ret.kind = "returned") =>
        LET v == SwappedForLittleEndian16(fn_args.reg, fn_args.order)
        IN /\ fn_args.fn = "reg_to_bytes_2" => fn_ret.y = <<v \div 256, v % 256>>
           /\ fn_args.fn = "reg_to_u16" => fn_ret.y = v
           /\ fn_args.fn = "reg_to_i16" => fn_ret.y = IF v >= 32768 THEN v - 65536 ELSE v

(***************************************************************************)
(* Further claims about the chunked read.                                  *)
(***************************************************************************)
\* C23: in a chunked read with inter_request_delay_ms > 0 that issues k
\* sub-requests exactly k-1 suspensions happen, the i-th after the i-th
\* sub-request has succeeded and before the next one is issued; none follows
\* the final or a failed sub-request, and none happens when the delay is 0.
C23_SleepsBetweenChunks ==
    /\ \A i \in DOMAIN sleeps :
          /\ sleeps[i] = i
          /\ limits.inter_request_delay_ms > 0
          /\ responses[i].kind = "ok"
    /\ pc # "sleep" => Len(sleeps) < Len(calls) \/ sleeps = <<>>
    /\ (pc = "done" /\ Len(calls) >= 1 /\ limits.inter_request_delay_ms > 0) =>
          Len(sleeps) = Len(calls) - 1
    /\ limits.inter_request_delay_ms = 0 => sleeps = <<>>

\* A read of 5 registers in chunks of 2 with a delay has returned after 3
\* sub-requests and 2 suspensions.
C23_Witness ==
    /\ pc = "done"
    /\ outcome.kind = "ok"
    /\ limits.inter_request_delay_ms > 0
    /\ Len(calls) = 3
    /\ sleeps = <<1, 2>>

\* C24: a successful chunked register read of quantity q with
\* max_read_registers = L >= 1 has made read_request_count(q) = ceil(q / L)
\* sub-requests.
C24_RequestCount ==
    (/\ pc = "done"
     /\ outcome.kind = "ok"
     /\ fc \in {3, 4}
     /\ limits.max_read_registers >= 1) =>
        /\ Len(calls) = read_request_count(limits, req_quantity)
        /\ Len(calls) * limits.max_read_registers >= req_quantity
        /\ Len(calls) > 0 => (Len(calls) - 1) * limits.max_read_registers < req_quantity

\* read_03_batch of 5 registers with max_read_registers = 2 has returned.
C24_Witness ==
    /\ pc = "done"
    /\ outcome.kind = "ok"
    /\ fc = 3
    /\ req_quantity = 5
    /\ limits.max_read_registers = 2
    /\ Len(calls) = 3

\* The chunked read with its scheduling: the transport completes every
\* awaited request, with a response or with an error, and every sleep ends.
SpecTerminating ==
    /\ Init
    /\ [][Next]_vars
    /\ WF_vars(transport_response_ok \/ transport_response_err)
    /\ WF_vars(sleep_elapsed)

\* C25: a chunked read over GenericModbusClient that has been called returns
\* a result or an error, whatever the quantity and the DeviceLimits, a limit
\* of 0 and a limit above the protocol ceiling included.
C25_Terminates == (pc # "idle") ~> (pc = "done")

\* A read with max_read_registers = 0 has returned an error after its one
\* sub-request, of quantity 0, was rejected.
C25_Witness ==
    /\ pc = "done"
    /\ fc = 3
    /\ limits.max_read_registers = 0
    /\ req_quantity > 0
    /\ Len(calls) = 1
    /\ calls[1].quantity = 0
    /\ outcome.kind = "err"

\* C26: the address ranges [address, address + quantity) of the sub-requests
\* of a chunked read are pairwise disjoint.
C26_DisjointRanges ==
    \A i, j \in DOMAIN requests :
        i < j =>
            \/ requests[i].address + requests[i].quantity <= requests[j].address
            \/ requests[j].address + requests[j].quantity <= requests[i].address

\* C29: for every ModbusValue v and every byte order encode_value(v, order)
\* returns v.register_count() registers, which is also
\* registers_for_type(v.type_name()).
C29_EncodedRegisterCount ==
    (fn_args.fn = "encode_value" /\ fn_ret.kind = "returned") =>
        /\ fn_ret.ok
        /\ Len(fn_ret.value) = fn_ret.register_count
        /\ fn_ret.register_count = fn_ret.registers_for_type

(***************************************************************************)
(* A further claim about the CommandBatcher.                               *)
(***************************************************************************)
\* C30: clear() removes every pending command and sets pending_count() to 0
\* and leaves the timestamp of the last release, the batch window and the
\* maximal batch size as they were, so that should_execute() after it is
\* decided by the time elapsed since the last take_commands or, when there
\* was none, since construction.
C30_ClearFrame ==
    [][ClearCommands =>
          /\ pending_commands' = EmptyMap
          /\ total_pending' = 0
          /\ UNCHANGED <<last_batch_time, batch_window, max_batch_size>>
          /\ last_batch_time' = last_take_time'
          /\ should_execute' <=>
                (now' - last_take_time' >= batch_window' \/ 0 >= max_batch_size')]_vars

\* clear() was called with commands pending, 20 ms after a take_commands
\* that happened after construction.
C30_Witness ==
    /\ last_op = "clear"
    /\ cleared # {}
    /\ total_pending = 0
    /\ last_take_time > 0
    /\ now > last_take_time

(***************************************************************************)
(* A further claim about the PDU builders.                                 *)
(***************************************************************************)
\* What the other builder of the same request returns for the arguments of
\* the call made.
Counterpart ==
    IF fn_args.fn = "build_write_multiple_coils"
    THEN build_fc15_pdu(fn_args.address, fn_args.values)
    ELSE IF fn_args.fn = "build_fc15_pdu"
    THEN build_write_multiple_coils(fn_args.address, fn_args.values)
    ELSE IF fn_args.fn = "build_write_multiple_registers"
    THEN build_fc16_pdu(fn_args.address, fn_args.values)
    ELSE build_write_multiple_registers(fn_args.address, fn_args.values)

\* C28: for every address and value list build_write_multiple_registers and
\* build_fc16_pdu both fail or both succeed with the same bytes, likewise
\* build_write_multiple_coils and build_fc15_pdu; in every PDU they produce
\* the byte count field is the number of data bytes after it.
C28_BuildersEquivalent ==
    (/\ fn_args.fn \in {"build_write_multiple_coils", "build_fc15_pdu",
                        "build_write_multiple_registers", "build_fc16_pdu"}
     /\ fn_ret.kind = "returned") =>
        /\ fn_ret.ok = Counterpart.ok
        /\ fn_ret.ok =>
              /\ as_slice(fn_ret.pdu) = as_slice(Counterpart.pdu)
              /\ fn_ret.pdu.len >= 6
              /\ fn_ret.pdu.data[5] = fn_ret.pdu.len - 6

====
